---- MODULE Spec2Model ----
(***************************************************************************)
(* A model of the chess engine core: the Position with its incrementally   *)
(* maintained state (position.cpp), the pseudo-legal move generator        *)
(* (movegen.cpp), perft (perft.cpp), the searcher's control flow           *)
(* (search.cpp) and the pawn-hash part of the hand-crafted evaluation      *)
(* (hce_evaluator.cpp, pawn_hash.cpp).                                     *)
(*                                                                         *)
(* Bitboards are modelled as sets of squares (bit sq set <=> sq in the     *)
(* set); |, &, ^ and ~ become union, intersection, symmetric difference    *)
(* and set difference.  A 64-bit Zobrist value is modelled as the set of   *)
(* the indices of the SplitMix64 draws XORed into it: the i-th value drawn *)
(* by init_zobrist is the atom {i}, and XOR is symmetric difference.       *)
(***************************************************************************)
EXTENDS Integers, Sequences, FiniteSets, TLC

(***************************************************************************)
(* types.h                                                                 *)
(***************************************************************************)
WHITE == 0
BLACK == 1
COLOR_NB == 2

NO_PIECE_TYPE == 0
PAWN == 1
KNIGHT == 2
BISHOP == 3
ROOK == 4
QUEEN == 5
KING == 6

NO_PIECE == 0
W_PAWN == 1
W_KNIGHT == 2
W_BISHOP == 3
W_ROOK == 4
W_QUEEN == 5
W_KING == 6
B_PAWN == 7
B_KNIGHT == 8
B_BISHOP == 9
B_ROOK == 10
B_QUEEN == 11
B_KING == 12

SQ_A1 == 0
SQ_B1 == 1
SQ_C1 == 2
SQ_D1 == 3
SQ_E1 == 4
SQ_F1 == 5
SQ_G1 == 6
SQ_H1 == 7
SQ_A8 == 56
SQ_B8 == 57
SQ_C8 == 58
SQ_D8 == 59
SQ_E8 == 60
SQ_F8 == 61
SQ_G8 == 62
SQ_H8 == 63
SQ_NONE == 64

NO_CASTLING == 0
WHITE_OO == 1
WHITE_OOO == 2
BLACK_OO == 4
BLACK_OOO == 8

Squares == 0..63
Colors == {WHITE, BLACK}
PieceTypes == PAWN..KING

Flip(c) == 1 - c

type_of(pc) == IF pc = NO_PIECE THEN NO_PIECE_TYPE ELSE ((pc - 1) % 6) + 1

color_of(pc) == IF pc <= W_KING THEN WHITE ELSE BLACK

make_piece(c, pt) == IF pt = NO_PIECE_TYPE THEN NO_PIECE ELSE (IF c = WHITE THEN 0 ELSE 6) + pt

file_of(sq) == sq % 8

rank_of(sq) == sq \div 8

make_square(f, r) == r * 8 + f

is_ok_square(sq) == sq >= SQ_A1 /\ sq <= SQ_H8

Abs(x) == IF x < 0 THEN -x ELSE x

SeqToSet(seq) == { seq[i] : i \in 1..Len(seq) }

Max(a, b) == IF a >= b THEN a ELSE b

Min(a, b) == IF a <= b THEN a ELSE b

\* C++ integer division truncates toward zero
CDiv(a, b) == IF a >= 0 THEN a \div b ELSE -((-a) \div b)

\* the i-th bit of a non-negative integer
Bit(x, i) == (x \div (2 ^ i)) % 2

\* bitwise AND of two 4-bit values (castling rights and masks)
And4(a, b) == Bit(a, 0) * Bit(b, 0) + 2 * Bit(a, 1) * Bit(b, 1)
              + 4 * Bit(a, 2) * Bit(b, 2) + 8 * Bit(a, 3) * Bit(b, 3)

\* ^ on bitboards and on Zobrist values
Xor(a, b) == (a \ b) \cup (b \ a)

\* the squares of a bitboard in pop_lsb order
SquareSeq == [i \in 1..64 |-> i - 1]

BBSeq(bb) == SelectSeq(SquareSeq, LAMBDA s : s \in bb)

(***************************************************************************)
(* move.h: a move is the packed 32-bit value                               *)
(***************************************************************************)
FLAG_NONE == 0
FLAG_CAPTURE == 1
FLAG_DOUBLE_PAWN == 2
FLAG_EN_PASSANT == 4
FLAG_CASTLING == 8

Move(from, to, flags, promotion) == from + to * 64 + promotion * 4096 + flags * 65536

MOVE_NONE == 0

move_from(m) == m % 64

move_to(m) == (m \div 64) % 64

move_promotion(m) == (m \div 4096) % 16

move_flags(m) == (m \div 65536) % 256

is_none(m) == m = 0

is_capture(m) == Bit(move_flags(m), 0) = 1

is_double_pawn_push(m) == Bit(move_flags(m), 1) = 1

is_en_passant(m) == Bit(move_flags(m), 2) = 1

is_castling(m) == Bit(move_flags(m), 3) = 1

is_promotion(m) == move_promotion(m) # NO_PIECE_TYPE

(***************************************************************************)
(* bitboard.cpp: attack tables and ray attacks                             *)
(***************************************************************************)
on_board(f, r) == f >= 0 /\ f < 8 /\ r >= 0 /\ r < 8

OffsetSquares(sq, offs) ==
    { make_square(file_of(sq) + o[1], rank_of(sq) + o[2]) :
        o \in { p \in offs : on_board(file_of(sq) + p[1], rank_of(sq) + p[2]) } }

attacks_pawn == [c \in Colors |-> [sq \in Squares |->
                    IF c = WHITE THEN OffsetSquares(sq, {<<-1, 1>>, <<1, 1>>})
                                 ELSE OffsetSquares(sq, {<<-1, -1>>, <<1, -1>>})]]

attacks_knight == [sq \in Squares |->
                    OffsetSquares(sq, {<<-2, -1>>, <<-2, 1>>, <<-1, -2>>, <<-1, 2>>,
                                       <<1, -2>>, <<1, 2>>, <<2, -1>>, <<2, 1>>})]

attacks_king == [sq \in Squares |->
                    OffsetSquares(sq, {<<-1, -1>>, <<-1, 0>>, <<-1, 1>>, <<0, -1>>,
                                       <<0, 1>>, <<1, -1>>, <<1, 0>>, <<1, 1>>})]

\* the squares the while loop of sliding_attacks adds along one direction,
\* starting at (f, r): every square up to and including the first blocker
RayWalk(f, r, df, dr, occupancy) ==
    { make_square(f + k * df, r + k * dr) :
        k \in { n \in 0..6 :
                  /\ on_board(f + n * df, r + n * dr)
                  /\ \A j \in 0..(n - 1) :
                        make_square(f + j * df, r + j * dr) \notin occupancy } }

slider_attacks(sq, occupancy, dirs) ==
    UNION { RayWalk(file_of(sq) + d[1], rank_of(sq) + d[2], d[1], d[2], occupancy) : d \in dirs }

bishop_attacks(sq, occupancy) ==
    slider_attacks(sq, occupancy, {<<1, 1>>, <<1, -1>>, <<-1, 1>>, <<-1, -1>>})

rook_attacks(sq, occupancy) ==
    slider_attacks(sq, occupancy, {<<1, 0>>, <<-1, 0>>, <<0, 1>>, <<0, -1>>})

(***************************************************************************)
(* zobrist.cpp: the values in the order init_zobrist draws them            *)
(***************************************************************************)
Zobrist_piece(pcm1, sq) == {pcm1 * 64 + sq}

Zobrist_castling(cr) == {768 + cr}

Zobrist_en_passant(f) == {784 + f}

Zobrist_pawn_file_king(c, f) == {792 + c * 8 + f}

Zobrist_side == {808}

(***************************************************************************)
(* eval_params.h, eval_tables.cpp: piece values and piece-square table     *)
(***************************************************************************)
PIECE_VALUE_MG == <<82, 337, 365, 477, 1025, 0>>

PIECE_VALUE_EG == <<94, 281, 297, 512, 936, 0>>

PHASE_INC == <<0, 1, 1, 2, 4, 0>>

MAX_PHASE == 24

mirror_square(sq) == make_square(file_of(sq), 7 - rank_of(sq))

centralization_bonus(sq) == 14 - (Abs(2 * file_of(sq) - 7) + Abs(2 * rank_of(sq) - 7))

psqt_delta(pt, sq) ==
    LET r == rank_of(sq)
        f == file_of(sq)
        central == centralization_bonus(sq)
    IN  CASE pt = PAWN   -> [mg |-> r * 6 - Abs(f - 3) * 2, eg |-> r * 12 - Abs(f - 3) * 2]
          [] pt = KNIGHT -> [mg |-> central * 2 - (IF r = 0 THEN 8 ELSE 0),
                             eg |-> central - (IF r = 0 THEN 4 ELSE 0)]
          [] pt = BISHOP -> [mg |-> central + r * 2, eg |-> central + r]
          [] pt = ROOK   -> [mg |-> r * 2 + (IF f = 3 \/ f = 4 THEN 6 ELSE 0), eg |-> r * 3]
          [] pt = QUEEN  -> [mg |-> central, eg |-> CDiv(central, 2) + r]
          [] pt = KING   -> [mg |-> -central * 2 - r * 8, eg |-> central * 2 + r * 10]
          [] OTHER       -> [mg |-> 0, eg |-> 0]

PACKED_PSQT == [pc \in 1..12 |-> [sq \in Squares |->
                  LET pt == type_of(pc)
                      Pack(d) == [mg |-> PIECE_VALUE_MG[pt] + d.mg, eg |-> PIECE_VALUE_EG[pt] + d.eg]
                  IN  Pack(psqt_delta(pt, IF color_of(pc) = WHITE THEN sq ELSE mirror_square(sq)))]]

psqt(pc, sq) == PACKED_PSQT[pc][sq]

(***************************************************************************)
(* position.cpp: Position                                                  *)
(***************************************************************************)
CASTLING_MASK == [sq \in Squares |->
    CASE sq = SQ_E1 -> 12
      [] sq = SQ_H1 -> 14
      [] sq = SQ_A1 -> 13
      [] sq = SQ_E8 -> 3
      [] sq = SQ_H8 -> 11
      [] sq = SQ_A8 -> 7
      [] OTHER      -> 15]

\* Position::clear
clear ==
    [piece_bb          |-> [c \in Colors |-> [pt \in PieceTypes |-> {}]],
     occupancy         |-> [c \in 0..COLOR_NB |-> {}],
     board             |-> [sq \in Squares |-> NO_PIECE],
     king_square       |-> [c \in Colors |-> SQ_NONE],
     side_to_move      |-> WHITE,
     castling_rights   |-> NO_CASTLING,
     ep_square         |-> SQ_NONE,
     halfmove_clock    |-> 0,
     fullmove_number   |-> 1,
     key               |-> {},
     pawn_key          |-> {},
     mg_psqt           |-> [c \in Colors |-> 0],
     eg_psqt           |-> [c \in Colors |-> 0],
     non_pawn_material |-> [c \in Colors |-> 0],
     phase             |-> 0,
     history           |-> <<>>]

add_piece(p, pc, sq) ==
    LET c  == color_of(pc)
        pt == type_of(pc)
        Put(ps) ==
        [p EXCEPT
          !.board[sq] = pc,
          !.piece_bb[c][pt] = @ \cup {sq},
          !.occupancy[c] = @ \cup {sq},
          !.occupancy[COLOR_NB] = @ \cup {sq},
          !.key = Xor(@, Zobrist_piece(pc - 1, sq)),
          !.mg_psqt[c] = @ + ps.mg,
          !.eg_psqt[c] = @ + ps.eg,
          !.pawn_key = IF pt = PAWN THEN Xor(@, Zobrist_piece(pc - 1, sq)) ELSE @,
          !.non_pawn_material[c] = IF pt # PAWN /\ pt # KING THEN @ + PIECE_VALUE_MG[pt] ELSE @,
          !.phase = IF pt # PAWN /\ pt # KING THEN @ + PHASE_INC[pt] ELSE @,
          !.king_square[c] = IF pt = KING THEN sq ELSE @]
    IN  Put(psqt(pc, sq))

remove_piece(p, pc, sq) ==
    LET c  == color_of(pc)
        pt == type_of(pc)
        Take(ps) ==
        [p EXCEPT
          !.board[sq] = NO_PIECE,
          !.piece_bb[c][pt] = @ \ {sq},
          !.occupancy[c] = @ \ {sq},
          !.occupancy[COLOR_NB] = @ \ {sq},
          !.key = Xor(@, Zobrist_piece(pc - 1, sq)),
          !.mg_psqt[c] = @ - ps.mg,
          !.eg_psqt[c] = @ - ps.eg,
          !.pawn_key = IF pt = PAWN THEN Xor(@, Zobrist_piece(pc - 1, sq)) ELSE @,
          !.non_pawn_material[c] = IF pt # PAWN /\ pt # KING THEN @ - PIECE_VALUE_MG[pt] ELSE @,
          !.phase = IF pt # PAWN /\ pt # KING THEN @ - PHASE_INC[pt] ELSE @]
    IN  Take(psqt(pc, sq))

move_piece(p, pc, from, to) ==
    LET c       == color_of(pc)
        pt      == type_of(pc)
        \* from_bb | to_bb is a single bit when from = to
        mask    == {from, to}
        \* board_[from] = NO_PIECE; board_[to] = pc; (in this order)
        Shift(table, kxor) ==
        [p EXCEPT
          !.board = [[p.board EXCEPT ![from] = NO_PIECE] EXCEPT ![to] = pc],
          !.piece_bb[c][pt] = Xor(@, mask),
          !.occupancy[c] = Xor(@, mask),
          !.occupancy[COLOR_NB] = Xor(@, mask),
          !.key = Xor(@, kxor),
          !.mg_psqt[c] = @ + table[to].mg - table[from].mg,
          !.eg_psqt[c] = @ + table[to].eg - table[from].eg,
          !.pawn_key = IF pt = PAWN THEN Xor(@, kxor) ELSE @,
          !.king_square[c] = IF pt = KING THEN to ELSE @]
    IN  Shift(PACKED_PSQT[pc], Xor(Zobrist_piece(pc - 1, from), Zobrist_piece(pc - 1, to)))

is_square_attacked(p, sq, by) ==
    LET occ == p.occupancy[COLOR_NB]
    IN  \/ attacks_pawn[Flip(by)][sq] \cap p.piece_bb[by][PAWN] # {}
        \/ attacks_knight[sq] \cap p.piece_bb[by][KNIGHT] # {}
        \/ bishop_attacks(sq, occ) \cap (p.piece_bb[by][BISHOP] \cup p.piece_bb[by][QUEEN]) # {}
        \/ rook_attacks(sq, occ) \cap (p.piece_bb[by][ROOK] \cup p.piece_bb[by][QUEEN]) # {}
        \/ attacks_king[sq] \cap p.piece_bb[by][KING] # {}

in_check(p, c) == is_square_attacked(p, p.king_square[c], Flip(c))

\* the loop of compute_full_key over the squares lo..hi of the board array
RECURSIVE PieceKeys(_, _, _)
PieceKeys(board, lo, hi) ==
    IF lo = hi
    THEN IF board[lo] # NO_PIECE THEN Zobrist_piece(board[lo] - 1, lo) ELSE {}
    ELSE Xor(PieceKeys(board, lo, (lo + hi) \div 2),
             PieceKeys(board, (lo + hi) \div 2 + 1, hi))

compute_full_key(p) ==
    LET k1 == Xor(PieceKeys(p.board, SQ_A1, SQ_H8), Zobrist_castling(p.castling_rights))
        k2 == IF p.ep_square # SQ_NONE THEN Xor(k1, Zobrist_en_passant(file_of(p.ep_square))) ELSE k1
    IN  IF p.side_to_move = BLACK THEN Xor(k2, Zobrist_side) ELSE k2

\* the StateInfo that make_move pushes
StateInfoOf(p, move, moved) ==
    [key               |-> p.key,
     pawn_key          |-> p.pawn_key,
     move              |-> move,
     moved_piece       |-> moved,
     captured_piece    |-> NO_PIECE,
     castling_rights   |-> p.castling_rights,
     ep_square         |-> p.ep_square,
     halfmove_clock    |-> p.halfmove_clock,
     fullmove_number   |-> p.fullmove_number,
     mg_psqt           |-> p.mg_psqt,
     eg_psqt           |-> p.eg_psqt,
     non_pawn_material |-> p.non_pawn_material,
     phase             |-> p.phase,
     is_null           |-> FALSE]

\* the castling branch shared by make_move and unmake_move: king and rook squares
CastleSquares(c, to) ==
    IF c = WHITE
    THEN IF to = SQ_G1 THEN [k |-> W_KING, kf |-> SQ_E1, kt |-> SQ_G1, r |-> W_ROOK, rf |-> SQ_H1, rt |-> SQ_F1]
                       ELSE [k |-> W_KING, kf |-> SQ_E1, kt |-> SQ_C1, r |-> W_ROOK, rf |-> SQ_A1, rt |-> SQ_D1]
    ELSE IF to = SQ_G8 THEN [k |-> B_KING, kf |-> SQ_E8, kt |-> SQ_G8, r |-> B_ROOK, rf |-> SQ_H8, rt |-> SQ_F8]
                       ELSE [k |-> B_KING, kf |-> SQ_E8, kt |-> SQ_C8, r |-> B_ROOK, rf |-> SQ_A8, rt |-> SQ_D8]

\* unmake_move: the pieces go back
UnmakeBoard(p1, st, mover) ==
    LET move == st.move
        from == move_from(move)
        to   == move_to(move)
    IN  IF is_castling(move)
        THEN move_piece(move_piece(p1, CastleSquares(mover, to).k, CastleSquares(mover, to).kt,
                                   CastleSquares(mover, to).kf),
                        CastleSquares(mover, to).r, CastleSquares(mover, to).rt,
                        CastleSquares(mover, to).rf)
        ELSE IF is_promotion(move)
        THEN add_piece(remove_piece(p1, p1.board[to], to), make_piece(mover, PAWN), from)
        ELSE move_piece(p1, st.moved_piece, to, from)

\* unmake_move: the captured piece goes back
UnmakeCapture(q, st, mover) ==
    IF is_castling(st.move) \/ st.captured_piece = NO_PIECE THEN q
    ELSE add_piece(q, st.captured_piece,
                   IF is_en_passant(st.move)
                   THEN (IF mover = WHITE THEN move_to(st.move) - 8 ELSE move_to(st.move) + 8)
                   ELSE move_to(st.move))

\* unmake_move: the saved keys and sums are written back last
UnmakeSums(q, st) ==
    [q EXCEPT !.key = st.key,
              !.pawn_key = st.pawn_key,
              !.mg_psqt = st.mg_psqt,
              !.eg_psqt = st.eg_psqt,
              !.non_pawn_material = st.non_pawn_material,
              !.phase = st.phase]

unmake_move(p) ==
    IF p.history = <<>> THEN p
    ELSE UnmakeSums(
           UnmakeCapture(
             UnmakeBoard([p EXCEPT !.history = SubSeq(@, 1, Len(@) - 1),
                                   !.side_to_move = Flip(p.side_to_move),
                                   !.castling_rights = p.history[Len(p.history)].castling_rights,
                                   !.ep_square = p.history[Len(p.history)].ep_square,
                                   !.halfmove_clock = p.history[Len(p.history)].halfmove_clock,
                                   !.fullmove_number = p.history[Len(p.history)].fullmove_number],
                         p.history[Len(p.history)], Flip(p.side_to_move)),
             p.history[Len(p.history)], Flip(p.side_to_move)),
           p.history[Len(p.history)])

\* make_move: the StateInfo is pushed, the ep and castling keys leave the key
MakePush(p, move) ==
    [p EXCEPT !.history = Append(@, StateInfoOf(p, move, p.board[move_from(move)])),
              !.key = Xor(IF p.ep_square # SQ_NONE
                          THEN Xor(p.key, Zobrist_en_passant(file_of(p.ep_square)))
                          ELSE p.key,
                          Zobrist_castling(p.castling_rights)),
              !.ep_square = SQ_NONE]

\* the square of the captured piece
CaptureSquare(us, move) ==
    IF is_en_passant(move)
    THEN (IF us = WHITE THEN move_to(move) - 8 ELSE move_to(move) + 8)
    ELSE move_to(move)

\* the piece the flags of the move name as captured (NO_PIECE: none)
CapturedPiece(p, move) ==
    IF is_castling(move) THEN NO_PIECE
    ELSE IF is_en_passant(move) \/ is_capture(move)
    THEN p.board[CaptureSquare(p.side_to_move, move)]
    ELSE NO_PIECE

\* make_move: the moved piece goes to its square, promoted if need be
MakePlace(q, move, moved, us) ==
    IF is_promotion(move)
    THEN add_piece(remove_piece(q, moved, move_from(move)),
                   make_piece(us, move_promotion(move)), move_to(move))
    ELSE move_piece(q, moved, move_from(move), move_to(move))

\* make_move: the pieces move
MakeBoard(p1, move, moved, captured, us) ==
    IF is_castling(move)
    THEN move_piece(move_piece(p1, CastleSquares(us, move_to(move)).k,
                               CastleSquares(us, move_to(move)).kf,
                               CastleSquares(us, move_to(move)).kt),
                    CastleSquares(us, move_to(move)).r, CastleSquares(us, move_to(move)).rf,
                    CastleSquares(us, move_to(move)).rt)
    ELSE MakePlace(IF captured # NO_PIECE
                   THEN remove_piece(p1, captured, CaptureSquare(us, move))
                   ELSE p1,
                   move, moved, us)

\* make_move: ep square, clocks, castling rights, side and key
MakeFinish(p2, move, moved, captured, us) ==
    LET from == move_from(move)
        to   == move_to(move)
        ep   == IF ~is_castling(move) /\ is_double_pawn_push(move)
                THEN (IF us = WHITE THEN from + 8 ELSE from - 8) ELSE p2.ep_square
        cr   == And4(And4(p2.castling_rights, CASTLING_MASK[from]), CASTLING_MASK[to])
    IN  [p2 EXCEPT !.history[Len(p2.history)].captured_piece = captured,
                   !.ep_square = ep,
                   !.halfmove_clock = IF type_of(moved) = PAWN \/ captured # NO_PIECE THEN 0 ELSE @ + 1,
                   !.fullmove_number = IF us = BLACK THEN @ + 1 ELSE @,
                   !.castling_rights = cr,
                   !.side_to_move = Flip(us),
                   !.key = Xor(Xor(IF ep # SQ_NONE
                                   THEN Xor(p2.key, Zobrist_en_passant(file_of(ep)))
                                   ELSE p2.key,
                                   Zobrist_castling(cr)),
                               Zobrist_side)]

\* make_move: the two places that return false call unmake_move first: a
\* capture flag without a captured piece (phantom, reached right after the
\* push) and an own king left attacked
MakeVerdict(q, phantom, us) ==
    IF phantom \/ in_check(q, us) THEN [ok |-> FALSE, pos |-> unmake_move(q)]
    ELSE [ok |-> TRUE, pos |-> q]

\* make_move returns the pair (return value, position afterwards)
make_move(p, move) ==
    LET moved    == p.board[move_from(move)]
        us       == p.side_to_move
        captured == CapturedPiece(p, move)
        phantom  == /\ ~is_castling(move)
                    /\ (is_en_passant(move) \/ is_capture(move))
                    /\ captured = NO_PIECE
        Rest(q)  == IF phantom THEN q
                    ELSE MakeFinish(MakeBoard(q, move, moved, captured, us),
                                    move, moved, captured, us)
    IN  IF moved = NO_PIECE \/ color_of(moved) # us THEN [ok |-> FALSE, pos |-> p]
        ELSE MakeVerdict(Rest(MakePush(p, move)), phantom, us)

(***************************************************************************)
(* Position::make_null_move and unmake_null_move: the side is toggled, the *)
(* ep square cleared and restored, and a StateInfo flagged is_null pushed  *)
(* whose moved and captured piece are empty                                *)
(***************************************************************************)
make_null_move(p) ==
    [p EXCEPT !.history = Append(@, [StateInfoOf(p, MOVE_NONE, NO_PIECE) EXCEPT !.is_null = TRUE]),
              !.key = Xor(IF p.ep_square # SQ_NONE
                          THEN Xor(p.key, Zobrist_en_passant(file_of(p.ep_square)))
                          ELSE p.key,
                          Zobrist_side),
              !.ep_square = SQ_NONE,
              !.side_to_move = Flip(p.side_to_move)]

\* the ep square stays cleared
unmake_null_move_keeps_ep(p) ==
    IF p.history = <<>> THEN p
    ELSE [p EXCEPT !.history = SubSeq(@, 1, Len(@) - 1),
                   !.side_to_move = Flip(p.side_to_move),
                   !.halfmove_clock = p.history[Len(p.history)].halfmove_clock,
                   !.fullmove_number = p.history[Len(p.history)].fullmove_number,
                   !.key = Xor(p.key, Zobrist_side),
                   !.pawn_key = p.history[Len(p.history)].pawn_key]

unmake_null_move(p) ==
    IF p.history = <<>> THEN p
    ELSE [p EXCEPT !.history = SubSeq(@, 1, Len(@) - 1),
                   !.side_to_move = Flip(p.side_to_move),
                   !.ep_square = p.history[Len(p.history)].ep_square,
                   !.halfmove_clock = p.history[Len(p.history)].halfmove_clock,
                   !.fullmove_number = p.history[Len(p.history)].fullmove_number,
                   !.key = p.history[Len(p.history)].key,
                   !.pawn_key = p.history[Len(p.history)].pawn_key]

(***************************************************************************)
(* movegen.cpp                                                             *)
(***************************************************************************)
\* the sequences ss[lo], ..., ss[hi] one after the other
RECURSIVE ConcatRange(_, _, _)
ConcatRange(ss, lo, hi) ==
    IF lo > hi THEN <<>>
    ELSE IF lo = hi THEN ss[lo]
    ELSE ConcatRange(ss, lo, (lo + hi) \div 2) \o ConcatRange(ss, (lo + hi) \div 2 + 1, hi)

Concat(ss) == ConcatRange(ss, 1, Len(ss))

push_promotion_moves(from, to, flags) ==
    << Move(from, to, flags, QUEEN), Move(from, to, flags, ROOK),
       Move(from, to, flags, BISHOP), Move(from, to, flags, KNIGHT) >>

is_enemy(p, sq, us) == p.board[sq] # NO_PIECE /\ color_of(p.board[sq]) # us

\* the moves of one pawn, in the order the generator pushes them
PawnMoves(p, from) ==
    LET us  == p.side_to_move
        f   == file_of(from)
        r   == rank_of(from)
        up  == IF us = WHITE THEN 8 ELSE -8
        one == from + up
        on1 == IF us = WHITE THEN one <= SQ_H8 ELSE one >= SQ_A1
        promo_rank == IF us = WHITE THEN 6 ELSE 1
        start_rank == IF us = WHITE THEN 1 ELSE 6
        pushes ==
            IF on1 /\ p.board[one] = NO_PIECE
            THEN IF r = promo_rank THEN push_promotion_moves(from, one, FLAG_NONE)
                 ELSE <<Move(from, one, FLAG_NONE, NO_PIECE_TYPE)>>
                      \o (IF r = start_rank /\ p.board[from + 2 * up] = NO_PIECE
                          THEN <<Move(from, from + 2 * up, FLAG_DOUBLE_PAWN, NO_PIECE_TYPE)>>
                          ELSE <<>>)
            ELSE <<>>
        Capture(to) ==
            LET onb == IF us = WHITE THEN to <= SQ_H8 ELSE to >= SQ_A1
            IN  (IF onb /\ is_enemy(p, to, us)
                 THEN IF r = promo_rank THEN push_promotion_moves(from, to, FLAG_CAPTURE)
                      ELSE <<Move(from, to, FLAG_CAPTURE, NO_PIECE_TYPE)>>
                 ELSE <<>>)
                \o (IF to = p.ep_square
                    THEN <<Move(from, to, FLAG_CAPTURE + FLAG_EN_PASSANT, NO_PIECE_TYPE)>>
                    ELSE <<>>)
        \* white: from + 7 then from + 9; black: from - 9 then from - 7
        left  == IF f > 0 THEN Capture(IF us = WHITE THEN from + 7 ELSE from - 9) ELSE <<>>
        right == IF f < 7 THEN Capture(IF us = WHITE THEN from + 9 ELSE from - 7) ELSE <<>>
    IN  pushes \o left \o right

\* the moves of one knight, bishop, rook, queen or king to the given targets
TargetMoves(p, from, targets) ==
    LET opp_occ == p.occupancy[Flip(p.side_to_move)]
        tos == BBSeq(targets)
    IN  [i \in 1..Len(tos) |->
            Move(from, tos[i], IF tos[i] \in opp_occ THEN FLAG_CAPTURE ELSE FLAG_NONE, NO_PIECE_TYPE)]

PieceMoves(p, pt) ==
    LET us      == p.side_to_move
        own_occ == p.occupancy[us]
        all_occ == p.occupancy[COLOR_NB]
        froms   == BBSeq(p.piece_bb[us][pt])
        Targets(from) ==
            CASE pt = KNIGHT -> attacks_knight[from] \ own_occ
              [] pt = BISHOP -> bishop_attacks(from, all_occ) \ own_occ
              [] pt = ROOK   -> rook_attacks(from, all_occ) \ own_occ
              [] pt = QUEEN  -> (bishop_attacks(from, all_occ) \cup rook_attacks(from, all_occ)) \ own_occ
    IN  Concat([i \in 1..Len(froms) |-> TargetMoves(p, froms[i], Targets(froms[i]))])

CastlingMoves_start_and_destination(p) ==
    LET us   == p.side_to_move
        them == Flip(us)
        ksq  == p.king_square[us]
        Can(right, rook, rsq, empties, safe) ==
            /\ And4(p.castling_rights, right) # 0
            /\ p.board[rsq] = rook
            /\ \A e \in empties : p.board[e] = NO_PIECE
            /\ \A a \in safe : ~is_square_attacked(p, a, them)
    IN  IF us = WHITE /\ ksq = SQ_E1
        THEN (IF Can(WHITE_OO, W_ROOK, SQ_H1, {SQ_F1, SQ_G1}, {SQ_E1, SQ_G1})
              THEN <<Move(SQ_E1, SQ_G1, FLAG_CASTLING, NO_PIECE_TYPE)>> ELSE <<>>)
             \o
             (IF Can(WHITE_OOO, W_ROOK, SQ_A1, {SQ_D1, SQ_C1, SQ_B1}, {SQ_E1, SQ_C1})
              THEN <<Move(SQ_E1, SQ_C1, FLAG_CASTLING, NO_PIECE_TYPE)>> ELSE <<>>)
        ELSE IF us = BLACK /\ ksq = SQ_E8
        THEN (IF Can(BLACK_OO, B_ROOK, SQ_H8, {SQ_F8, SQ_G8}, {SQ_E8, SQ_G8})
              THEN <<Move(SQ_E8, SQ_G8, FLAG_CASTLING, NO_PIECE_TYPE)>> ELSE <<>>)
             \o
             (IF Can(BLACK_OOO, B_ROOK, SQ_A8, {SQ_D8, SQ_C8, SQ_B8}, {SQ_E8, SQ_C8})
              THEN <<Move(SQ_E8, SQ_C8, FLAG_CASTLING, NO_PIECE_TYPE)>> ELSE <<>>)
        ELSE <<>>

CastlingMoves(p) ==
    LET us   == p.side_to_move
        them == Flip(us)
        ksq  == p.king_square[us]
        Can(right, rook, rsq, empties, safe) ==
            /\ And4(p.castling_rights, right) # 0
            /\ p.board[rsq] = rook
            /\ \A e \in empties : p.board[e] = NO_PIECE
            /\ \A a \in safe : ~is_square_attacked(p, a, them)
    IN  IF us = WHITE /\ ksq = SQ_E1
        THEN (IF Can(WHITE_OO, W_ROOK, SQ_H1, {SQ_F1, SQ_G1}, {SQ_E1, SQ_F1, SQ_G1})
              THEN <<Move(SQ_E1, SQ_G1, FLAG_CASTLING, NO_PIECE_TYPE)>> ELSE <<>>)
             \o
             (IF Can(WHITE_OOO, W_ROOK, SQ_A1, {SQ_D1, SQ_C1, SQ_B1}, {SQ_E1, SQ_D1, SQ_C1})
              THEN <<Move(SQ_E1, SQ_C1, FLAG_CASTLING, NO_PIECE_TYPE)>> ELSE <<>>)
        ELSE IF us = BLACK /\ ksq = SQ_E8
        THEN (IF Can(BLACK_OO, B_ROOK, SQ_H8, {SQ_F8, SQ_G8}, {SQ_E8, SQ_F8, SQ_G8})
              THEN <<Move(SQ_E8, SQ_G8, FLAG_CASTLING, NO_PIECE_TYPE)>> ELSE <<>>)
             \o
             (IF Can(BLACK_OOO, B_ROOK, SQ_A8, {SQ_D8, SQ_C8, SQ_B8}, {SQ_E8, SQ_D8, SQ_C8})
              THEN <<Move(SQ_E8, SQ_C8, FLAG_CASTLING, NO_PIECE_TYPE)>> ELSE <<>>)
        ELSE <<>>

generate_pseudo_legal(p) ==
    LET us    == p.side_to_move
        pawns == BBSeq(p.piece_bb[us][PAWN])
        ksq   == p.king_square[us]
    IN  Concat([i \in 1..Len(pawns) |-> PawnMoves(p, pawns[i])])
        \o PieceMoves(p, KNIGHT)
        \o PieceMoves(p, BISHOP)
        \o PieceMoves(p, ROOK)
        \o PieceMoves(p, QUEEN)
        \o TargetMoves(p, ksq, attacks_king[ksq] \ p.occupancy[us])
        \o CastlingMoves(p)

\* generate_legal makes and unmakes every pseudo-legal move on pos itself:
\* the result is the list of accepted moves and the position it leaves behind.
\* LegalLoop runs the iterations lo..hi of its loop from the state st.
RECURSIVE LegalLoop(_, _, _, _)
LegalLoop(st, pseudo, lo, hi) ==
    IF lo > hi THEN st
    ELSE IF lo = hi
    THEN LET Made(mr) ==
                 IF mr.ok THEN [moves |-> Append(st.moves, pseudo[lo]), pos |-> unmake_move(mr.pos)]
                 ELSE [moves |-> st.moves, pos |-> mr.pos]
         IN  Made(make_move(st.pos, pseudo[lo]))
    ELSE LET half == LegalLoop(st, pseudo, lo, (lo + hi) \div 2)
         IN  IF Len(half.moves) >= 0
             THEN LegalLoop(half, pseudo, (lo + hi) \div 2 + 1, hi)
             ELSE half

generate_legal(p) ==
    LET Legal(pseudo) == LegalLoop([moves |-> <<>>, pos |-> p], pseudo, 1, Len(pseudo))
    IN  Legal(generate_pseudo_legal(p))

(***************************************************************************)
(* perft.cpp                                                               *)
(***************************************************************************)
\* perft returns the node count and the position it leaves behind.
\* PerftLoop runs the iterations lo..hi of its loop from the state st.
RECURSIVE perft(_, _)
RECURSIVE PerftLoop(_, _, _, _, _)
PerftLoop(st, moves, lo, hi, depth) ==
    IF lo > hi THEN st
    ELSE IF lo = hi
    THEN LET Below(sub) == [nodes |-> st.nodes + sub.nodes, pos |-> unmake_move(sub.pos)]
             Made(mr) ==
                 IF ~mr.ok THEN [nodes |-> st.nodes, pos |-> mr.pos]
                 ELSE Below(perft(mr.pos, depth - 1))
         IN  Made(make_move(st.pos, moves[lo]))
    ELSE LET half == PerftLoop(st, moves, lo, (lo + hi) \div 2, depth)
         IN  IF half.nodes >= 0
             THEN PerftLoop(half, moves, (lo + hi) \div 2 + 1, hi, depth)
             ELSE half

perft(p, depth) ==
    IF depth <= 0 THEN [nodes |-> 1, pos |-> p]
    ELSE LET Count(moves) == PerftLoop([nodes |-> 0, pos |-> p], moves, 1, Len(moves), depth)
         IN  Count(generate_pseudo_legal(p))

(***************************************************************************)
(* Position::set_from_fen.  A FEN is the sequence of its whitespace-       *)
(* separated fields; the first four are sequences of characters, the two   *)
(* clocks are numbers and may be missing.                                  *)
(***************************************************************************)
piece_from_fen(c) ==
    CASE c = "P" -> W_PAWN   [] c = "N" -> W_KNIGHT [] c = "B" -> W_BISHOP
      [] c = "R" -> W_ROOK   [] c = "Q" -> W_QUEEN  [] c = "K" -> W_KING
      [] c = "p" -> B_PAWN   [] c = "n" -> B_KNIGHT [] c = "b" -> B_BISHOP
      [] c = "r" -> B_ROOK   [] c = "q" -> B_QUEEN  [] c = "k" -> B_KING
      [] OTHER -> NO_PIECE

Digits == <<"0", "1", "2", "3", "4", "5", "6", "7", "8", "9">>
FileChars == <<"a", "b", "c", "d", "e", "f", "g", "h">>
RankChars == <<"1", "2", "3", "4", "5", "6", "7", "8">>

isdigit(c) == \E i \in 1..10 : Digits[i] = c
IndexOf(seq, c) == CHOOSE i \in 1..Len(seq) : seq[i] = c

square_from_string(s) ==
    IF Len(s) # 2
       \/ ~(\E i \in 1..8 : FileChars[i] = s[1])
       \/ ~(\E i \in 1..8 : RankChars[i] = s[2])
    THEN SQ_NONE
    ELSE make_square(IndexOf(FileChars, s[1]) - 1, IndexOf(RankChars, s[2]) - 1)

\* one iteration of the loop over board_part, for the character c
BoardStep(st, c) ==
    IF c = "/" THEN [st EXCEPT !.rank = @ - 1, !.file = 0]
    ELSE IF isdigit(c) THEN [st EXCEPT !.file = @ + IndexOf(Digits, c) - 1]
    ELSE IF piece_from_fen(c) = NO_PIECE \/ st.file > 7 \/ st.rank < 0
    THEN [st EXCEPT !.ok = FALSE]
    ELSE [st EXCEPT !.pos = add_piece(@, piece_from_fen(c), make_square(st.file, st.rank)),
                    !.file = @ + 1]

\* the iterations lo..hi of that loop; it is left at the first rejected character
RECURSIVE BoardLoop(_, _, _, _)
BoardLoop(st, board_part, lo, hi) ==
    IF lo > hi THEN st
    ELSE IF lo = hi THEN BoardStep(st, board_part[lo])
    ELSE LET half == BoardLoop(st, board_part, lo, (lo + hi) \div 2)
         IN  IF half.ok THEN BoardLoop(half, board_part, (lo + hi) \div 2 + 1, hi)
             ELSE half

CastlingBit(c) ==
    CASE c = "K" -> WHITE_OO [] c = "Q" -> WHITE_OOO
      [] c = "k" -> BLACK_OO [] c = "q" -> BLACK_OOO [] OTHER -> 0

\* castling_rights_ |= bit, for each character in turn
CastlingLoop(castling_part) ==
    LET Has(b) == \E i \in 1..Len(castling_part) : CastlingBit(castling_part[i]) = b
    IN  (IF Has(WHITE_OO) THEN WHITE_OO ELSE 0) + (IF Has(WHITE_OOO) THEN WHITE_OOO ELSE 0)
        + (IF Has(BLACK_OO) THEN BLACK_OO ELSE 0) + (IF Has(BLACK_OOO) THEN BLACK_OOO ELSE 0)

set_from_fen(fen) ==
    IF Len(fen) < 4 THEN [ok |-> FALSE, pos |-> clear]
    ELSE
    LET stm_part      == fen[2]
        castling_part == fen[3]
        ep_part       == fen[4]
        castling_ok == castling_part = <<"-">>
                       \/ \A i \in 1..Len(castling_part) : CastlingBit(castling_part[i]) # 0
        \* b: the board loop's result; the fields after the board are set on p1 = b.pos
        Fields(b) ==
            LET p1 == b.pos
                p2 == [p1 EXCEPT !.side_to_move = IF stm_part = <<"b">> THEN BLACK ELSE WHITE]
                p3 == [p2 EXCEPT !.castling_rights =
                         IF castling_part = <<"-">> THEN NO_CASTLING
                         ELSE CastlingLoop(castling_part)]
                p4 == [p3 EXCEPT !.ep_square =
                         IF ep_part = <<"-">> THEN SQ_NONE ELSE square_from_string(ep_part)]
                p5 == [p4 EXCEPT !.halfmove_clock  = IF Len(fen) >= 5 THEN fen[5] ELSE 0,
                                 !.fullmove_number = IF Len(fen) >= 6 THEN fen[6] ELSE 1]
                Keyed(p) == [p EXCEPT !.key = compute_full_key(p), !.history = <<>>]
            IN  IF ~b.ok THEN [ok |-> FALSE, pos |-> p1]
                ELSE IF p1.king_square[WHITE] = SQ_NONE \/ p1.king_square[BLACK] = SQ_NONE
                THEN [ok |-> FALSE, pos |-> p1]
                ELSE IF stm_part # <<"w">> /\ stm_part # <<"b">>
                THEN [ok |-> FALSE, pos |-> p1]
                ELSE IF ~castling_ok THEN [ok |-> FALSE, pos |-> p2]
                ELSE IF ep_part # <<"-">> /\ ~is_ok_square(square_from_string(ep_part))
                THEN [ok |-> FALSE, pos |-> p4]
                ELSE [ok |-> TRUE, pos |-> Keyed(p5)]
    IN  Fields(BoardLoop([ok |-> TRUE, pos |-> clear, rank |-> 7, file |-> 0],
                         fen[1], 1, Len(fen[1])))

(***************************************************************************)
(* The FEN strings the positions are loaded from                           *)
(***************************************************************************)
\* the start position: rnbqkbnr/pppppppp/8/8/8/8/PPPPPPPP/RNBQKBNR w KQkq - 0 1
CHESS_STARTPOS_FEN ==
    << <<"r", "n", "b", "q", "k", "b", "n", "r", "/", "p", "p", "p", "p", "p", "p", "p", "p", "/", "8", "/", "8", "/", "8", "/", "8", "/", "P", "P", "P", "P", "P", "P", "P", "P", "/", "R", "N", "B", "Q", "K", "B", "N", "R">>,
       <<"w">>,
       <<"K", "Q", "k", "q">>,
       <<"-">>,
       0,
       1 >>

\* perft reference position 2: r3k2r/p1ppqpb1/bn2pnp1/3PN3/1p2P3/2N2Q1p/PPPBBPPP/R3K2R w KQkq - 0 1
FEN_KIWIPETE ==
    << <<"r", "3", "k", "2", "r", "/", "p", "1", "p", "p", "q", "p", "b", "1", "/", "b", "n", "2", "p", "n", "p", "1", "/", "3", "P", "N", "3", "/", "1", "p", "2", "P", "3", "/", "2", "N", "2", "Q", "1", "p", "/", "P", "P", "P", "B", "B", "P", "P", "P", "/", "R", "3", "K", "2", "R">>,
       <<"w">>,
       <<"K", "Q", "k", "q">>,
       <<"-">>,
       0,
       1 >>

\* perft reference position 3: 8/2p5/3p4/KP5r/1R3p1k/8/4P1P1/8 w - - 0 1
FEN_POSITION3 ==
    << <<"8", "/", "2", "p", "5", "/", "3", "p", "4", "/", "K", "P", "5", "r", "/", "1", "R", "3", "p", "1", "k", "/", "8", "/", "4", "P", "1", "P", "1", "/", "8">>,
       <<"w">>,
       <<"-">>,
       <<"-">>,
       0,
       1 >>

\* an ep square with no pawn behind it: 4k3/8/8/3P4/8/8/8/4K3 w - e6 0 1
FEN_PHANTOM_EP ==
    << <<"4", "k", "3", "/", "8", "/", "8", "/", "3", "P", "4", "/", "8", "/", "8", "/", "8", "/", "4", "K", "3">>,
       <<"w">>,
       <<"-">>,
       <<"e", "6">>,
       0,
       1 >>

\* an ep square that holds a piece: 4k3/8/4n3/3Pp3/8/8/8/4K3 w - e6 0 1
FEN_EP_OCCUPIED ==
    << <<"4", "k", "3", "/", "8", "/", "4", "n", "3", "/", "3", "P", "p", "3", "/", "8", "/", "8", "/", "8", "/", "4", "K", "3">>,
       <<"w">>,
       <<"-">>,
       <<"e", "6">>,
       0,
       1 >>

\* two black kings: 4k3/8/8/8/8/8/4R3/k3K3 w - - 0 1
FEN_TWO_KINGS ==
    << <<"4", "k", "3", "/", "8", "/", "8", "/", "8", "/", "8", "/", "8", "/", "4", "R", "3", "/", "k", "3", "K", "3">>,
       <<"w">>,
       <<"-">>,
       <<"-">>,
       0,
       1 >>

\* a genuine en-passant capture: 4k3/8/8/3Pp3/8/8/8/4K3 w - e6 0 2
FEN_REAL_EP ==
    << <<"4", "k", "3", "/", "8", "/", "8", "/", "3", "P", "p", "3", "/", "8", "/", "8", "/", "8", "/", "4", "K", "3">>,
       <<"w">>,
       <<"-">>,
       <<"e", "6">>,
       0,
       2 >>

\* king-side castling available: 4k3/8/8/8/8/8/8/4K2R w K - 0 1
FEN_CASTLE ==
    << <<"4", "k", "3", "/", "8", "/", "8", "/", "8", "/", "8", "/", "8", "/", "8", "/", "4", "K", "2", "R">>,
       <<"w">>,
       <<"K">>,
       <<"-">>,
       0,
       1 >>

\* both castling rights, the squares the king passes attacked by rooks:
\* 3rkr2/8/8/8/8/8/8/R3K2R w KQ - 0 1
FEN_CASTLE_ATTACKED ==
    << <<"3", "r", "k", "r", "2", "/", "8", "/", "8", "/", "8", "/", "8", "/", "8", "/", "8", "/", "R", "3", "K", "2", "R">>,
       <<"w">>,
       <<"K", "Q">>,
       <<"-">>,
       0,
       1 >>

\* promotions, with and without capture: 3nk3/4P3/8/8/8/8/8/4K3 w - - 0 1
FEN_PROMOTION ==
    << <<"3", "n", "k", "3", "/", "4", "P", "3", "/", "8", "/", "8", "/", "8", "/", "8", "/", "8", "/", "4", "K", "3">>,
       <<"w">>,
       <<"-">>,
       <<"-">>,
       0,
       1 >>

\* a double push that allows en passant: 4k3/8/8/8/4p3/8/3P4/4K3 w - - 0 1
FEN_DOUBLE_PUSH ==
    << <<"4", "k", "3", "/", "8", "/", "8", "/", "8", "/", "4", "p", "3", "/", "8", "/", "3", "P", "4", "/", "4", "K", "3">>,
       <<"w">>,
       <<"-">>,
       <<"-">>,
       0,
       1 >>

\* a pawn defended by a pawn, attacked by a knight with a rook behind it:
\* 4k3/8/3p4/4p3/8/5N2/8/4RK2 w - - 0 1
FEN_DEFENDED_PAWN ==
    << <<"4", "k", "3", "/", "8", "/", "3", "p", "4", "/", "4", "p", "3", "/", "8", "/", "5", "N", "2", "/", "8", "/", "4", "R", "K", "2">>,
       <<"w">>,
       <<"-">>,
       <<"-">>,
       0,
       1 >>

\* a pinned knight: 4k3/4r3/8/8/8/8/4N3/4K3 w - - 0 1
FEN_PINNED ==
    << <<"4", "k", "3", "/", "4", "r", "3", "/", "8", "/", "8", "/", "8", "/", "8", "/", "4", "N", "3", "/", "4", "K", "3">>,
       <<"w">>,
       <<"-">>,
       <<"-">>,
       0,
       1 >>

\* checkmate (tests/search_tests.cpp): 7k/6Q1/6K1/8/8/8/8/8 b - - 0 1
FEN_CHECKMATE ==
    << <<"7", "k", "/", "6", "Q", "1", "/", "6", "K", "1", "/", "8", "/", "8", "/", "8", "/", "8", "/", "8">>,
       <<"b">>,
       <<"-">>,
       <<"-">>,
       0,
       1 >>

\* checkmate with the halfmove clock at 100: 7k/6Q1/6K1/8/8/8/8/8 b - - 100 1
FEN_CHECKMATE_50 ==
    << <<"7", "k", "/", "6", "Q", "1", "/", "6", "K", "1", "/", "8", "/", "8", "/", "8", "/", "8", "/", "8">>,
       <<"b">>,
       <<"-">>,
       <<"-">>,
       100,
       1 >>

\* stalemate: 7k/5Q2/6K1/8/8/8/8/8 b - - 0 1
FEN_STALEMATE ==
    << <<"7", "k", "/", "5", "Q", "2", "/", "6", "K", "1", "/", "8", "/", "8", "/", "8", "/", "8", "/", "8">>,
       <<"b">>,
       <<"-">>,
       <<"-">>,
       0,
       1 >>

\* perft reference position 4: r3k2r/Pppp1ppp/1b3nbN/nP6/BBP1P3/q4N2/Pp1P2PP/R2Q1RK1 w kq - 0 1
FEN_POSITION4 ==
    << <<"r", "3", "k", "2", "r", "/", "P", "p", "p", "p", "1", "p", "p", "p", "/", "1", "b", "3", "n", "b", "N", "/", "n", "P", "6", "/", "B", "B", "P", "1", "P", "3", "/", "q", "4", "N", "2", "/", "P", "p", "1", "P", "2", "P", "P", "/", "R", "2", "Q", "1", "R", "K", "1">>,
       <<"w">>,
       <<"k", "q">>,
       <<"-">>,
       0,
       1 >>

\* perft reference position 5: rnbq1k1r/pp1Pbppp/2p5/8/2B5/8/PPP1NnPP/RNBQK2R w KQ - 1 8
FEN_POSITION5 ==
    << <<"r", "n", "b", "q", "1", "k", "1", "r", "/", "p", "p", "1", "P", "b", "p", "p", "p", "/", "2", "p", "5", "/", "8", "/", "2", "B", "5", "/", "8", "/", "P", "P", "P", "1", "N", "n", "P", "P", "/", "R", "N", "B", "Q", "K", "2", "R">>,
       <<"w">>,
       <<"K", "Q">>,
       <<"-">>,
       1,
       8 >>

\* perft reference position 6: r4rk1/1pp1qppp/p1np1n2/2b1p1B1/2B1P1b1/P1NP1N2/1PP1QPPP/R4RK1 w - - 0 10
FEN_POSITION6 ==
    << <<"r", "4", "r", "k", "1", "/", "1", "p", "p", "1", "q", "p", "p", "p", "/", "p", "1", "n", "p", "1", "n", "2", "/", "2", "b", "1", "p", "1", "B", "1", "/", "2", "B", "1", "P", "1", "b", "1", "/", "P", "1", "N", "P", "1", "N", "2", "/", "1", "P", "P", "1", "Q", "P", "P", "P", "/", "R", "4", "R", "K", "1">>,
       <<"w">>,
       <<"-">>,
       <<"-">>,
       0,
       10 >>

\* no black king: set_from_fen rejects it: 8/8/8/8/8/8/8/4K3 w - - 0 1
FEN_NO_KING ==
    << <<"8", "/", "8", "/", "8", "/", "8", "/", "8", "/", "8", "/", "8", "/", "4", "K", "3">>,
       <<"w">>,
       <<"-">>,
       <<"-">>,
       0,
       1 >>

\* a rank of five squares: 4k3/8/8/8/8/8/8/4K w - - 0 1
FEN_SHORT_RANK ==
    << <<"4", "k", "3", "/", "8", "/", "8", "/", "8", "/", "8", "/", "8", "/", "8", "/", "4", "K">>,
       <<"w">>,
       <<"-">>,
       <<"-">>,
       0,
       1 >>

\* a digit run that overflows the rank: 4k3/8/8/8/8/8/8/4K4 w - - 0 1
FEN_LONG_RANK ==
    << <<"4", "k", "3", "/", "8", "/", "8", "/", "8", "/", "8", "/", "8", "/", "8", "/", "4", "K", "4">>,
       <<"w">>,
       <<"-">>,
       <<"-">>,
       0,
       1 >>

\* seven ranks: 4k3/8/8/8/8/8/4K3 w - - 0 1
FEN_MISSING_RANK ==
    << <<"4", "k", "3", "/", "8", "/", "8", "/", "8", "/", "8", "/", "8", "/", "4", "K", "3">>,
       <<"w">>,
       <<"-">>,
       <<"-">>,
       0,
       1 >>

\* nine ranks: 4k3/8/8/8/8/8/8/4K3/8 w - - 0 1
FEN_EXTRA_RANK ==
    << <<"4", "k", "3", "/", "8", "/", "8", "/", "8", "/", "8", "/", "8", "/", "8", "/", "4", "K", "3", "/", "8">>,
       <<"w">>,
       <<"-">>,
       <<"-">>,
       0,
       1 >>

\* a piece on a ninth file: 4k3/8/8/8/8/8/8/4K3P w - - 0 1
FEN_NINTH_FILE ==
    << <<"4", "k", "3", "/", "8", "/", "8", "/", "8", "/", "8", "/", "8", "/", "8", "/", "4", "K", "3", "P">>,
       <<"w">>,
       <<"-">>,
       <<"-">>,
       0,
       1 >>

\* an unknown piece letter: 4k3/8/8/8/8/8/8/4Kx2 w - - 0 1
FEN_UNKNOWN_PIECE ==
    << <<"4", "k", "3", "/", "8", "/", "8", "/", "8", "/", "8", "/", "8", "/", "8", "/", "4", "K", "x", "2">>,
       <<"w">>,
       <<"-">>,
       <<"-">>,
       0,
       1 >>

\* a side field other than w or b: 4k3/8/8/8/8/8/8/4K3 x - - 0 1
FEN_BAD_SIDE ==
    << <<"4", "k", "3", "/", "8", "/", "8", "/", "8", "/", "8", "/", "8", "/", "8", "/", "4", "K", "3">>,
       <<"x">>,
       <<"-">>,
       <<"-">>,
       0,
       1 >>

\* a castling field with a character outside KQkq: 4k3/8/8/8/8/8/8/4K3 w KX - 0 1
FEN_BAD_CASTLING ==
    << <<"4", "k", "3", "/", "8", "/", "8", "/", "8", "/", "8", "/", "8", "/", "8", "/", "4", "K", "3">>,
       <<"w">>,
       <<"K", "X">>,
       <<"-">>,
       0,
       1 >>

\* an ep field that is no square: 4k3/8/8/8/8/8/8/4K3 w - e9 0 1
FEN_BAD_EP ==
    << <<"4", "k", "3", "/", "8", "/", "8", "/", "8", "/", "8", "/", "8", "/", "8", "/", "4", "K", "3">>,
       <<"w">>,
       <<"-">>,
       <<"e", "9">>,
       0,
       1 >>

\* FEN strings with a malformed field
MalformedFens ==
    { FEN_SHORT_RANK, FEN_LONG_RANK, FEN_MISSING_RANK, FEN_EXTRA_RANK, FEN_NINTH_FILE,
      FEN_UNKNOWN_PIECE, FEN_BAD_SIDE, FEN_BAD_CASTLING, FEN_BAD_EP, FEN_NO_KING }

(***************************************************************************)
(* The positions of tests/perft_tests.cpp with their published node counts *)
(* at depths 1, 2, ...                                                     *)
(***************************************************************************)
PerftCases ==
    << [fen |-> CHESS_STARTPOS_FEN, counts |-> <<20, 400, 8902>>],
       [fen |-> FEN_KIWIPETE,       counts |-> <<48, 2039>>],
       [fen |-> FEN_POSITION3,      counts |-> <<14, 191, 2812>>],
       [fen |-> FEN_POSITION4,      counts |-> <<6, 264>>],
       [fen |-> FEN_POSITION5,      counts |-> <<44, 1486>>],
       [fen |-> FEN_POSITION6,      counts |-> <<46, 2079>> ] >>

PerftFens == { PerftCases[i].fen : i \in 1..Len(PerftCases) }

\* the positions moves are played from
PlayFens ==
    { FEN_PHANTOM_EP, FEN_EP_OCCUPIED, FEN_TWO_KINGS, FEN_REAL_EP, FEN_CASTLE,
      FEN_CASTLE_ATTACKED, FEN_DEFENDED_PAWN, FEN_PROMOTION, FEN_DOUBLE_PUSH, FEN_PINNED, FEN_CHECKMATE, FEN_STALEMATE }

Fens == PlayFens \cup PerftFens \cup MalformedFens

\* the number of calls made on a position after it is loaded
MaxCalls == 2
\* the deepest perft
MaxPerftDepth == 3

(***************************************************************************)
(* search.h, search.cpp: the constants of the search                       *)
(***************************************************************************)
MAX_PLY == 128
VALUE_INFINITE == 32000
VALUE_MATE == 31000
ASPIRATION_INITIAL == 24
ASPIRATION_MAX == 1024
\* std::numeric_limits<int>::max() / 4
TIME_INF == 536870911
MATE_SCORE_FOR_TT == VALUE_MATE - MAX_PLY

BOUND_NONE == 0
BOUND_UPPER == 1
BOUND_LOWER == 2
BOUND_EXACT == 3

Clamp(v, lo, hi) == IF v < lo THEN lo ELSE IF v > hi THEN hi ELSE v

(***************************************************************************)
(* evaluator.cpp: MaterialEvaluator, the evaluator the searcher is built   *)
(* with here (Searcher takes any IEvaluator)                               *)
(***************************************************************************)
MATERIAL_VALUE == <<100, 320, 330, 500, 900, 0>>

popcount(bb) == Cardinality(bb)

RECURSIVE MaterialSum(_, _, _)
MaterialSum(p, c, pt) ==
    IF pt > KING THEN 0
    ELSE popcount(p.piece_bb[c][pt]) * MATERIAL_VALUE[pt] + MaterialSum(p, c, pt + 1)

static_eval(p) ==
    LET Signed(score) == IF p.side_to_move = WHITE THEN score ELSE -score
    IN  Signed(MaterialSum(p, WHITE, PAWN) - MaterialSum(p, BLACK, PAWN))

(***************************************************************************)
(* position.cpp: draw detection                                            *)
(***************************************************************************)
is_repetition(p) ==
    /\ Len(p.history) >= 4
    /\ \E k \in 1..(p.halfmove_clock \div 2) :
          /\ Len(p.history) - 2 * k >= 0
          /\ p.history[Len(p.history) - 2 * k + 1].key = p.key

is_insufficient_material(p) ==
    LET Count(pt) == popcount(p.piece_bb[WHITE][pt]) + popcount(p.piece_bb[BLACK][pt])
        white_knights == popcount(p.piece_bb[WHITE][KNIGHT])
        white_bishops == popcount(p.piece_bb[WHITE][BISHOP])
        black_knights == popcount(p.piece_bb[BLACK][KNIGHT])
        black_bishops == popcount(p.piece_bb[BLACK][BISHOP])
        total_minors  == white_knights + white_bishops + black_knights + black_bishops
    IN  IF Count(PAWN) # 0 \/ Count(ROOK) # 0 \/ Count(QUEEN) # 0 THEN FALSE
        ELSE IF total_minors = 0 THEN TRUE
        ELSE IF total_minors = 1 THEN TRUE
        ELSE white_knights = 0 /\ black_knights = 0 /\ white_bishops = 1 /\ black_bishops = 1

is_draw(p) == p.halfmove_clock >= 100 \/ is_repetition(p) \/ is_insufficient_material(p)

\* the square a set bit is popped from first
pop_lsb(bb) == CHOOSE sq \in bb : \A t \in bb : sq <= t

(***************************************************************************)
(* see.cpp: static exchange evaluation                                     *)
(***************************************************************************)
SEE_VALUE == <<0, 100, 320, 330, 500, 900, 10000>>

piece_value(pt) == SEE_VALUE[pt + 1]

attackers_to(p, sq, occ) ==
    LET Both(pt) == p.piece_bb[WHITE][pt] \cup p.piece_bb[BLACK][pt]
    IN  (attacks_pawn[BLACK][sq] \cap p.piece_bb[WHITE][PAWN])
        \cup (attacks_pawn[WHITE][sq] \cap p.piece_bb[BLACK][PAWN])
        \cup (attacks_knight[sq] \cap Both(KNIGHT))
        \cup (bishop_attacks(sq, occ) \cap (Both(BISHOP) \cup Both(QUEEN)))
        \cup (rook_attacks(sq, occ) \cap (Both(ROOK) \cup Both(QUEEN)))
        \cup (attacks_king[sq] \cap Both(KING))

see_captured_value(p, move) ==
    LET captured == IF is_en_passant(move) THEN make_piece(Flip(p.side_to_move), PAWN)
                    ELSE p.board[move_to(move)]
    IN  IF captured = NO_PIECE THEN 0 ELSE piece_value(type_of(captured))

\* the while (true) loop of static_exchange_eval; gain[d] of the source is
\* gain[d + 1] here, d the index of the last entry
RECURSIVE see_loop(_, _, _, _, _, _, _)
see_loop(p, to, occ, occ_side, last, side, gain) ==
    LET at    == attackers_to(p, to, occ) \cap occ_side[side]
        cands == { pt \in PieceTypes : at \cap p.piece_bb[side][pt] # {} }
        pt    == CHOOSE c \in cands : \A o \in cands : c <= o
        from_sq == pop_lsb(at \cap p.piece_bb[side][pt])
        d     == Len(gain)
        next  == piece_value(last) - gain[d]
    IN  IF at = {} \/ cands = {} THEN gain
        ELSE IF Max(-gain[d], next) < 0 THEN Append(gain, next)
        ELSE see_loop(p, to, Xor(occ, {from_sq}), [occ_side EXCEPT ![side] = Xor(@, {from_sq})],
                      pt, Flip(side), Append(gain, next))

\* while (--d > 0) gain[d - 1] = -max(-gain[d - 1], gain[d]); called with d
\* the index of the last entry
RECURSIVE see_fold(_, _)
see_fold(gain, d) ==
    IF d - 1 > 0
    THEN see_fold([gain EXCEPT ![d - 1] = -Max(-gain[d - 1], gain[d])], d - 1)
    ELSE gain

\* occ and occ_side of static_exchange_eval when its loop begins
see_start(p, move) ==
    LET from  == move_from(move)
        to    == move_to(move)
        us    == p.side_to_move
        them  == Flip(us)
        occ1  == Xor(p.occupancy[COLOR_NB], {from})
        side1 == [c \in Colors |-> IF c = us THEN Xor(p.occupancy[c], {from}) ELSE p.occupancy[c]]
        cap_sq == IF us = WHITE THEN to - 8 ELSE to + 8
        occ2  == IF is_en_passant(move) THEN Xor(occ1, {cap_sq}) ELSE occ1
        side2 == IF is_en_passant(move) THEN [side1 EXCEPT ![them] = Xor(@, {cap_sq})]
                 ELSE IF p.board[to] # NO_PIECE THEN [side1 EXCEPT ![them] = Xor(@, {to})]
                 ELSE side1
    IN  [occ |-> occ2 \cup {to}, occ_side |-> [side2 EXCEPT ![us] = @ \cup {to}]]

static_exchange_eval(p, move) ==
    LET moved == p.board[move_from(move)]
        st    == see_start(p, move)
        Folded(gain) == see_fold(gain, Len(gain) - 1)[1]
    IN  IF is_none(move) THEN 0
        ELSE IF moved = NO_PIECE THEN 0
        ELSE Folded(see_loop(p, move_to(move), st.occ, st.occ_side, type_of(moved),
                             Flip(p.side_to_move), <<see_captured_value(p, move)>>))

(***************************************************************************)
(* movepicker.cpp.  The SearchConfig switches use_history,                 *)
(* use_cont_history and use_capture_history are off (UCI options), so the  *)
(* history terms of the scores are 0.  ctx is the QuietOrderContext,       *)
(* ctx.null when the picker is built without one.                          *)
(***************************************************************************)
PIECE_ORDER_VALUE == <<100, 320, 330, 500, 900, 10000>>

NullContext ==
    [null |-> TRUE, use_see |-> FALSE, killer1 |-> MOVE_NONE, killer2 |-> MOVE_NONE, counter |-> MOVE_NONE]

OrderValue(pc) == IF pc = NO_PIECE THEN 0 ELSE PIECE_ORDER_VALUE[type_of(pc)]

capture_score(p, move, ctx) ==
    LET captured == IF is_en_passant(move) THEN make_piece(Flip(p.side_to_move), PAWN)
                    ELSE p.board[move_to(move)]
        attacker == p.board[move_from(move)]
        see_term == IF ~ctx.null /\ ctx.use_see THEN static_exchange_eval(p, move) * 1024 ELSE 0
    IN  see_term + OrderValue(captured) * 16 - OrderValue(attacker)

quiet_score(p, move, ctx) ==
    IF ctx.null THEN 0
    ELSE IF move = ctx.killer1 THEN 1000000
    ELSE IF move = ctx.killer2 THEN 900000
    ELSE IF move = ctx.counter THEN 800000
    ELSE 0

\* better without its tie-break
better_by_score(lhs, rhs) == lhs.score > rhs.score

better(lhs, rhs) ==
    IF lhs.score # rhs.score THEN lhs.score > rhs.score ELSE lhs.move < rhs.move

\* the MovePicker object after its constructor: the buckets in the order
\* the moves were generated, the indices at 0
RECURSIVE picker_fill(_, _, _, _, _)
picker_fill(pk, p, moves, i, ctx) ==
    IF i > Len(moves) THEN pk
    ELSE LET move == moves[i]
             is_capture_or_promo == is_capture(move) \/ is_promotion(move)
             Scored(score) ==
                 IF score >= 0 \/ is_promotion(move)
                 THEN [pk EXCEPT !.good_captures = Append(@, [move |-> move, score |-> score])]
                 ELSE [pk EXCEPT !.bad_captures = Append(@, [move |-> move, score |-> score])]
             Placed ==
                 IF ~is_none(pk.tt_move) /\ move = pk.tt_move THEN pk
                 ELSE IF pk.qsearch_only /\ ~is_capture_or_promo THEN pk
                 ELSE IF is_capture_or_promo THEN Scored(capture_score(p, move, ctx))
                 ELSE [pk EXCEPT !.quiets = Append(@, [move |-> move, score |-> quiet_score(p, move, ctx)])]
         IN  picker_fill(Placed, p, moves, i + 1, ctx)

picker_new(p, tt_move, qsearch_only, ctx) ==
    LET Fill(moves) ==
            picker_fill([tt_move |-> tt_move, qsearch_only |-> qsearch_only, tt_done |-> FALSE,
                         generated_count |-> Len(moves),
                         good_captures |-> <<>>, quiets |-> <<>>, bad_captures |-> <<>>,
                         good_idx |-> 0, quiet_idx |-> 0, bad_idx |-> 0],
                        p, moves, 1, ctx)
    IN  Fill(generate_pseudo_legal(p))

\* the loop of pick_next_from_bucket from i on; best and i count from 1
RECURSIVE scan_best(_, _, _)
scan_best(bucket, best, i) ==
    IF i > Len(bucket) THEN best
    ELSE scan_best(bucket, IF better(bucket[i], bucket[best]) THEN i ELSE best, i + 1)

\* pick_next_from_bucket: the move, the bucket and the index afterwards
pick_next_from_bucket(bucket, index) ==
    IF index >= Len(bucket) THEN [move |-> MOVE_NONE, bucket |-> bucket, index |-> index]
    ELSE LET Swapped(best) ==
                 [bucket EXCEPT ![index + 1] = bucket[best], ![best] = bucket[index + 1]]
             Picked(b) == [move |-> b[index + 1].move, bucket |-> b, index |-> index + 1]
         IN  Picked(Swapped(scan_best(bucket, index + 1, index + 2)))

\* MovePicker::next: the move, the phase reported and the picker afterwards
picker_next(pk0) ==
    LET pk == [pk0 EXCEPT !.tt_done = TRUE]
        Bad(r) ==
            IF ~is_none(r.move)
            THEN [move |-> r.move, phase |-> "BAD_CAPTURE",
                  picker |-> [pk EXCEPT !.bad_captures = r.bucket, !.bad_idx = r.index]]
            ELSE [move |-> MOVE_NONE, phase |-> "END", picker |-> pk]
        Quiet(r) ==
            IF ~pk.qsearch_only /\ ~is_none(r.move)
            THEN [move |-> r.move, phase |-> "QUIET",
                  picker |-> [pk EXCEPT !.quiets = r.bucket, !.quiet_idx = r.index]]
            ELSE Bad(pick_next_from_bucket(pk.bad_captures, pk.bad_idx))
        Good(r) ==
            IF ~is_none(r.move)
            THEN [move |-> r.move, phase |-> "GOOD_CAPTURE",
                  picker |-> [pk EXCEPT !.good_captures = r.bucket, !.good_idx = r.index]]
            ELSE Quiet(pick_next_from_bucket(pk.quiets, pk.quiet_idx))
    IN  IF ~pk0.tt_done /\ ~is_none(pk0.tt_move)
        THEN [move |-> pk0.tt_move, phase |-> "TT", picker |-> pk]
        ELSE Good(pick_next_from_bucket(pk.good_captures, pk.good_idx))

\* the moves next() returns from the picker pk on, up to the null move
RECURSIVE picker_drain(_)
picker_drain(pk) ==
    LET Rest(r) == IF is_none(r.move) THEN <<>> ELSE <<r.move>> \o picker_drain(r.picker)
    IN  Rest(picker_next(pk))

\* the sequence of moves next() returns until it returns the null move
MovePicker(p, tt_move, qsearch_only, ctx) == picker_drain(picker_new(p, tt_move, qsearch_only, ctx))

(***************************************************************************)
(* search.cpp: the transposition table.  The table is the set of its       *)
(* written entries; the positions of one search are taken to fall into     *)
(* different slots of the 2^21-entry table.                                *)
(***************************************************************************)
\* static_cast<std::int16_t> of an int
int16(v) == ((v + 32768) % 65536) - 32768

score_to_tt(score, ply) ==
    IF score > MATE_SCORE_FOR_TT THEN score + ply
    ELSE IF score < -MATE_SCORE_FOR_TT THEN score - ply
    ELSE score

score_from_tt_one_sided(score, ply) ==
    IF score > MATE_SCORE_FOR_TT THEN score - ply
    ELSE score

score_from_tt(score, ply) ==
    IF score > MATE_SCORE_FOR_TT THEN score - ply
    ELSE IF score < -MATE_SCORE_FOR_TT THEN score + ply
    ELSE score

\* the entries probe() finds for the key: one or none
tt_probe(tt, key) == { e \in tt : e.key = key }

tt_store(tt, key, move, score, eval, depth, bound, generation, ply) ==
    LET Write(old) ==
            IF \A dst \in old : bound = BOUND_EXACT \/ depth >= dst.depth \/ dst.generation # generation
            THEN (tt \ old) \cup
                 { [key        |-> key,
                    move_raw   |-> move,
                    score      |-> int16(score_to_tt(score, ply)),
                    eval       |-> int16(Clamp(eval, -VALUE_INFINITE, VALUE_INFINITE)),
                    depth      |-> Clamp(depth, -1, 127),
                    bound      |-> bound,
                    generation |-> generation] }
            ELSE tt
    IN  Write(tt_probe(tt, key))

(***************************************************************************)
(* search.cpp: TimeManager.  elapsed_ms() is the reading now of the clock  *)
(* started by init.  nps_ema_ is kept as a whole number.                   *)
(***************************************************************************)
DefaultLimits ==
    [depth |-> 0, nodes |-> 0, movetime_ms |-> -1, wtime_ms |-> -1, btime_ms |-> -1,
     winc_ms |-> 0, binc_ms |-> 0, movestogo |-> 0, move_overhead_ms |-> 30,
     infinite |-> FALSE, ponder |-> FALSE, nodes_as_time |-> FALSE]

clamp_ms(v) == Max(1, Min(v, TIME_INF))

\* the quotient of two ints, which C++ rounds towards zero
quot(a, b) == IF a >= 0 THEN a \div b ELSE -((-a) \div b)

\* the product of two ints as the build computes it, in 32 bits, for
\* 0 <= a < 2^31 and 0 <= b < 2^15: the halves of a are multiplied apart
mul32(a, b) ==
    LET lo == (a % 65536) * b
        hi == ((a \div 65536) * b + lo \div 65536) % 65536
    IN  (IF hi >= 32768 THEN hi - 65536 ELSE hi) * 65536 + (lo % 65536)

check_period(nps_ema) == Clamp(nps_ema \div 50, 512, 32768)

\* (ms * nps_ema * tenths / 10) / 1000, the product taken in parts
node_budget(ms, nps_ema, tenths) ==
    ms * tenths * (nps_ema \div 10000) + (ms * tenths * (nps_ema % 10000)) \div 10000

soft_budget(effective_optimum_ms, nps_ema) == Max(1, node_budget(effective_optimum_ms, nps_ema, 9))

hard_budget(soft, maximum_time_ms, nps_ema) == Max(soft + 1, node_budget(maximum_time_ms, nps_ema, 8))

clock_horizon(time_left_ms, moves_to_go) ==
    IF moves_to_go > 0 THEN Clamp(moves_to_go, 1, 80)
    ELSE Clamp(20 + time_left_ms \div 15000, 20, 40)

\* maximum_time_ms_ as init first sets it, before the emergency mode
planned_maximum(available, optimum, base_time_per_move, moves_to_go) ==
    IF moves_to_go > 0
    THEN Min(available, Max(optimum, optimum * 3))
    ELSE Min(available, Max(optimum * 4, base_time_per_move * 6))

\* available, optimum and maximum time when the clock of the side to move is given
ClockBudget(time_left_ms, increment_ms, moves_to_go, overhead) ==
    LET safety_reserve == IF moves_to_go > 0 THEN Max(20, time_left_ms \div 50)
                          ELSE Max(40, time_left_ms \div 25)
        emergency == time_left_ms <= overhead * 3 + 80
        horizon == clock_horizon(time_left_ms, moves_to_go)
        Plan(available) ==
            LET base_time_per_move == available \div Max(1, horizon)
                Cap(optimum) ==
                    LET maximum == planned_maximum(available, optimum, base_time_per_move, moves_to_go)
                        Emergency(opt, maxi) ==
                            LET Final(o) == [available |-> available,
                                             optimum   |-> Min(o, available),
                                             maximum   |-> Max(Min(o, available),
                                                               Min(IF emergency THEN Max(o, Min(maxi, available \div 2)) ELSE maxi,
                                                                   available)),
                                             planned   |-> maximum,
                                             emergency |-> emergency]
                            IN  Final(IF emergency THEN Max(1, Min(opt, available \div 4)) ELSE opt)
                    IN  Emergency(optimum, maximum)
            IN  Cap(clamp_ms(base_time_per_move + quot(increment_ms, 2)))
    IN  Plan(clamp_ms(time_left_ms - overhead - safety_reserve))

\* available_ms_, optimum_time_ms_ and maximum_time_ms_ as init sets them;
\* planned is maximum_time_ms_ before the emergency mode is looked at
tm_budget(limits, us) ==
    LET time_left_ms == IF us = WHITE THEN limits.wtime_ms ELSE limits.btime_ms
        increment_ms == IF us = WHITE THEN limits.winc_ms ELSE limits.binc_ms
        overhead     == Max(0, limits.move_overhead_ms)
        unlimited    == [available |-> TIME_INF, optimum |-> TIME_INF, maximum |-> TIME_INF, planned |-> TIME_INF, emergency |-> FALSE]
        Fixed(available) == [available |-> available, optimum |-> clamp_ms(quot(mul32(available, 85), 100)),
                             maximum |-> available, planned |-> available, emergency |-> FALSE]
    IN  IF limits.infinite \/ limits.ponder THEN unlimited
        ELSE IF limits.movetime_ms > 0 THEN Fixed(clamp_ms(limits.movetime_ms - overhead))
        ELSE IF time_left_ms > 0 THEN ClockBudget(time_left_ms, increment_ms, limits.movestogo, overhead)
        ELSE unlimited

tm_init(tm, limits, us, session_nps_ema) ==
    LET time_left_ms == IF us = WHITE THEN limits.wtime_ms ELSE limits.btime_ms
        increment_ms == IF us = WHITE THEN limits.winc_ms ELSE limits.binc_ms
        Make(nps_ema, b) ==
            LET budgeted == ~(limits.infinite \/ limits.ponder) /\ limits.nodes_as_time
                            /\ b.maximum < TIME_INF /\ nps_ema > 1
                Budgets(soft) ==
                    [time_left_ms         |-> time_left_ms,
                     increment_ms         |-> increment_ms,
                     moves_to_go          |-> limits.movestogo,
                     available_ms         |-> b.available,
                     optimum_time_ms      |-> b.optimum,
                     effective_optimum_ms |-> b.optimum,
                     maximum_time_ms      |-> b.maximum,
                     fixed_movetime       |-> limits.movetime_ms > 0,
                     emergency_mode       |-> b.emergency,
                     nodes_as_time        |-> limits.nodes_as_time,
                     soft_node_budget     |-> soft,
                     hard_node_budget     |-> IF budgeted THEN hard_budget(soft, b.maximum, nps_ema) ELSE 0,
                     nps_ema              |-> nps_ema,
                     next_check_node      |-> check_period(nps_ema),
                     check_period_nodes   |-> check_period(nps_ema),
                     last_stability_score |-> tm.last_stability_score,
                     last_complexity_x100 |-> tm.last_complexity_x100]
            IN  Budgets(IF budgeted THEN soft_budget(b.optimum, nps_ema) ELSE 0)
    IN  Make(IF session_nps_ema > 1 THEN session_nps_ema ELSE 200000, tm_budget(limits, us))

\* TimeManager::should_stop_hard: the answer, the TimeManager after the call
\* and whether the call read the clock
tm_should_stop_hard(tm, total_nodes, explicit_node_limit, external_stop, now) ==
    IF external_stop THEN [stop |-> TRUE, tm |-> tm, read |-> FALSE]
    ELSE IF explicit_node_limit > 0 /\ total_nodes >= explicit_node_limit
    THEN [stop |-> TRUE, tm |-> tm, read |-> FALSE]
    ELSE IF tm.nodes_as_time /\ tm.hard_node_budget > 0 /\ total_nodes >= tm.hard_node_budget
    THEN [stop |-> TRUE, tm |-> tm, read |-> FALSE]
    ELSE IF tm.maximum_time_ms >= TIME_INF THEN [stop |-> FALSE, tm |-> tm, read |-> FALSE]
    ELSE IF total_nodes < tm.next_check_node THEN [stop |-> FALSE, tm |-> tm, read |-> FALSE]
    ELSE [stop |-> now >= tm.maximum_time_ms,
          tm   |-> [tm EXCEPT !.next_check_node = total_nodes + tm.check_period_nodes],
          read |-> TRUE]

\* the complexity and the stability should_stop_soft gives an iteration
soft_complexity(it) ==
    LET moves == it.root_legal_moves
    IN  Clamp(100
              + (IF moves <= 1 THEN -45 ELSE IF moves <= 3 THEN -20
                 ELSE IF moves >= 30 THEN 20 ELSE IF moves >= 20 THEN 10 ELSE 0)
              + (IF it.bestmove_changed THEN 18 ELSE 0)
              + (IF it.bestmove_changes >= 2 THEN 8 ELSE 0)
              + (IF it.score_delta >= 80 THEN 20 ELSE IF it.score_delta >= 35 THEN 10 ELSE 0)
              + (IF it.aspiration_fails >= 2 THEN 18 ELSE IF it.aspiration_fails = 1 THEN 10 ELSE 0),
              55, 260)

soft_stability(it) ==
    LET moves == it.root_legal_moves
    IN    (IF ~it.bestmove_changed THEN 3 ELSE -1)
        + (IF it.bestmove_changes = 0 THEN 1 ELSE 0)
        + (IF it.score_delta <= 10 THEN 2 ELSE IF it.score_delta <= 25 THEN 1
           ELSE IF it.score_delta >= 80 THEN -2 ELSE 0)
        + (IF it.aspiration_fails = 0 THEN 2 ELSE IF it.aspiration_fails >= 2 THEN -2 ELSE 0)
        + (IF moves <= 1 THEN 3 ELSE IF moves <= 3 THEN 1 ELSE 0)

\* should_stop_soft after its two early returns: the effective optimum,
\* the stability and the decision
soft_decision(tm, it, now) ==
    LET Decide(c, st, effective) ==
            [stop |-> IF tm.nodes_as_time /\ tm.soft_node_budget > 0 /\ it.total_nodes >= tm.soft_node_budget
                      THEN st >= 0
                      ELSE now >= effective /\ st >= 3,
             tm   |-> [tm EXCEPT !.effective_optimum_ms = effective,
                                 !.last_stability_score = st,
                                 !.last_complexity_x100 = c]]
        Effective(c) == Clamp(quot(mul32(tm.optimum_time_ms, c), 100), Max(1, tm.optimum_time_ms \div 2), tm.maximum_time_ms)
        Adapt(c) == Decide(c, soft_stability(it), Effective(c))
    IN  Adapt(soft_complexity(it))

\* should_stop_soft without its first return
tm_should_stop_soft_without_maximum(tm, it, now) ==
    IF tm.effective_optimum_ms >= TIME_INF THEN [stop |-> FALSE, tm |-> tm]
    ELSE soft_decision(tm, it, now)

\* TimeManager::should_stop_soft; it is the record of the IterationSummary
tm_should_stop_soft(tm, it, now) ==
    IF now >= tm.maximum_time_ms THEN [stop |-> TRUE, tm |-> tm]
    ELSE IF tm.effective_optimum_ms >= TIME_INF THEN [stop |-> FALSE, tm |-> tm]
    ELSE soft_decision(tm, it, now)

tm_update_nps(tm, nps) ==
    LET Budget(t, soft) ==
            IF t.nodes_as_time /\ t.maximum_time_ms < TIME_INF
            THEN [t EXCEPT !.soft_node_budget = soft,
                           !.hard_node_budget = hard_budget(soft, t.maximum_time_ms, t.nps_ema)]
            ELSE t
        Period(ema) == Budget([tm EXCEPT !.nps_ema = ema, !.check_period_nodes = check_period(ema)],
                              soft_budget(tm.effective_optimum_ms, ema))
    IN  IF nps = 0 THEN tm
        ELSE Period(IF tm.nps_ema <= 1 THEN nps ELSE (85 * tm.nps_ema + 15 * nps) \div 100)

(***************************************************************************)
(* search.cpp: Searcher.  s is the Searcher object: limits_, stats_.nodes, *)
(* stop_, root_legal_moves_, previous_root_best_move_,                     *)
(* rolling_bestmove_changes_, generation_, session_nps_ema_, tt_, tm_,     *)
(* killer_moves_, refutation_moves_ and the moves of stack_.  The          *)
(* SearchConfig switches of the optional prunings, reductions, extensions  *)
(* and history tables are off, so those tables stay empty.                 *)
(*                                                                         *)
(* search_node and qsearch run as a stack of frames, one per invocation.   *)
(* A frame is at "enter" before its first statement, at "loop" at the head *)
(* of its move loop, and at "wait" while the child it called runs.         *)
(***************************************************************************)
Lookup(table, k, default) == IF k \in DOMAIN table THEN table[k] ELSE default

\* should_stop_hard without the feedback of stop_ into the TimeManager
should_stop_hard_forgetful(s, now) ==
    LET Keep(r) == [s |-> [s EXCEPT !.stop_ = r.stop, !.tm = r.tm], read |-> r.read]
    IN  Keep(tm_should_stop_hard(s.tm, s.nodes, s.limits.nodes, FALSE, now))

\* Searcher::should_stop_hard: the Searcher after the call, and whether the
\* call read the clock
should_stop_hard(s, now) ==
    LET Keep(r) == [s |-> [s EXCEPT !.stop_ = r.stop, !.tm = r.tm], read |-> r.read]
    IN  Keep(tm_should_stop_hard(s.tm, s.nodes, s.limits.nodes, s.stop_, now))

update_pv(move, child) ==
    LET line == <<move>> \o child
    IN  IF Len(line) <= MAX_PLY THEN line ELSE SubSeq(line, 1, MAX_PLY)

Frame(fn, depth, alpha, beta, ply, is_pv) ==
    [fn |-> fn, label |-> "enter", depth |-> depth, alpha |-> alpha, beta |-> beta,
     ply |-> ply, is_pv |-> is_pv, in_check |-> FALSE, alpha_orig |-> alpha, key |-> {},
     tt_move |-> MOVE_NONE, static_eval |-> 0, moves |-> <<>>, legal_moves |-> 0,
     best_score |-> -VALUE_INFINITE, best_move |-> MOVE_NONE, pv |-> <<>>,
     move |-> MOVE_NONE, research |-> FALSE,
     tt_hit |-> FALSE, tt_depth |-> 0, tt_bound |-> BOUND_NONE, tt_score |-> 0,
     ctx |-> NullContext, extension |-> 0, alts |-> <<>>, alternatives |-> 0]

\* what a step of a frame does: it returns score and pv to its caller
\* ("return"), goes on in frame ("go"), or calls the child ("call") while
\* frame waits; s is the Searcher and pos the Position after the step
Return(s, p, read, score, pv) ==
    [kind |-> "return", s |-> s, pos |-> p, read |-> read, score |-> score, pv |-> pv,
     frame |-> <<>>, child |-> <<>>]

Go(s, p, read, frame) ==
    [kind |-> "go", s |-> s, pos |-> p, read |-> read, score |-> 0, pv |-> <<>>,
     frame |-> <<frame>>, child |-> <<>>]

Invoke(s, p, frame, child) ==
    [kind |-> "call", s |-> s, pos |-> p, read |-> FALSE, score |-> 0, pv |-> <<>>,
     frame |-> <<frame>>, child |-> <<child>>]

\* the TT move as search_node rebuilds it from move_raw
tt_move_of(e) ==
    Move(e.move_raw % 64, (e.move_raw \div 64) % 64, (e.move_raw \div 65536) % 256,
         (e.move_raw \div 4096) % 16)

quiet_ctx(s, ply) ==
    LET prev == s.stack_[ply]
    IN  [null    |-> FALSE,
         use_see |-> FALSE,
         killer1 |-> Lookup(s.killer_moves, ply, <<MOVE_NONE, MOVE_NONE>>)[1],
         killer2 |-> Lookup(s.killer_moves, ply, <<MOVE_NONE, MOVE_NONE>>)[2],
         counter |-> IF ply > 0 /\ ~is_none(prev)
                     THEN Lookup(s.refutation_moves, <<move_from(prev), move_to(prev)>>, MOVE_NONE)
                     ELSE MOVE_NONE]

\* search_node from its first statement to the head of its move loop
search_node_enter(s0, p, f, now) ==
    LET Picked(s, read, depth, checked, tt_move, eval, hit) ==
            Go(s, p, read, [f EXCEPT !.label = "loop", !.depth = depth, !.in_check = checked,
                                     !.alpha_orig = f.alpha, !.key = p.key, !.tt_move = tt_move,
                                     !.static_eval = eval, !.pv = <<>>,
                                     !.moves = MovePicker(p, tt_move, FALSE, quiet_ctx(s, f.ply)),
                                     !.ctx = quiet_ctx(s, f.ply),
                                     !.tt_hit = hit # {},
                                     !.tt_depth = IF hit # {} THEN (CHOOSE e \in hit : TRUE).depth ELSE 0,
                                     !.tt_bound = IF hit # {} THEN (CHOOSE e \in hit : TRUE).bound
                                                  ELSE BOUND_NONE,
                                     !.tt_score = IF hit # {}
                                                  THEN score_from_tt((CHOOSE e \in hit : TRUE).score, f.ply)
                                                  ELSE 0])
        Probed(s, read, depth, checked, hit) ==
            LET cut == { e \in hit :
                           /\ ~f.is_pv
                           /\ e.depth >= depth
                           /\ \/ e.bound = BOUND_EXACT
                              \/ e.bound = BOUND_LOWER /\ score_from_tt(e.score, f.ply) >= f.beta
                              \/ e.bound = BOUND_UPPER /\ score_from_tt(e.score, f.ply) <= f.alpha }
                Order(tt_move, eval) == Picked(s, read, depth, checked, tt_move, eval, hit)
            IN  IF cut # {}
                THEN Return(s, p, read, score_from_tt((CHOOSE e \in cut : TRUE).score, f.ply), <<>>)
                ELSE IF hit # {}
                THEN Order(tt_move_of(CHOOSE e \in hit : TRUE), (CHOOSE e \in hit : TRUE).eval)
                ELSE Order(MOVE_NONE, static_eval(p))
        Checked(s, read, checked) ==
            LET depth == IF checked THEN f.depth + 1 ELSE f.depth
            IN  IF depth <= 0
                THEN Go(s, p, read, [f EXCEPT !.fn = "qsearch", !.pv = <<>>])
                ELSE Probed(s, read, depth, checked, tt_probe(s.tt, p.key))
        Entered(h) ==
            IF h.s.stop_ THEN Return(h.s, p, h.read, 0, <<>>)
            ELSE IF f.ply >= MAX_PLY - 1 THEN Return(h.s, p, h.read, static_eval(p), <<>>)
            ELSE IF is_draw(p) THEN Return(h.s, p, h.read, 0, <<>>)
            ELSE Checked(h.s, h.read, in_check(p, p.side_to_move))
    IN  Entered(should_stop_hard([s0 EXCEPT !.nodes = @ + 1], now))

\* qsearch from its first statement to the head of its move loop
qsearch_enter(s0, p, f, now) ==
    LET Picked(s, read, checked, alpha, stand_pat) ==
            Go(s, p, read, [f EXCEPT !.label = "loop", !.in_check = checked, !.alpha = alpha,
                                     !.static_eval = stand_pat, !.pv = <<>>,
                                     !.moves = MovePicker(p, MOVE_NONE, ~checked, NullContext)])
        Stand(s, read, stand_pat) ==
            IF stand_pat >= f.beta THEN Return(s, p, read, stand_pat, <<>>)
            ELSE Picked(s, read, FALSE, Max(f.alpha, stand_pat), stand_pat)
        Checked(s, read, checked) ==
            IF checked THEN Picked(s, read, TRUE, f.alpha, f.alpha)
            ELSE Stand(s, read, static_eval(p))
        Entered(h) ==
            IF h.s.stop_ THEN Return(h.s, p, h.read, 0, <<>>)
            ELSE IF is_draw(p) THEN Return(h.s, p, h.read, 0, <<>>)
            ELSE Checked(h.s, h.read, in_check(p, p.side_to_move))
    IN  Entered(should_stop_hard([s0 EXCEPT !.nodes = @ + 1], now))

\* search_node after its move loop
search_node_finish(s0, p, f) ==
    LET bound == IF f.best_score >= f.beta THEN BOUND_LOWER
                 ELSE IF f.best_score > f.alpha_orig THEN BOUND_EXACT
                 ELSE BOUND_UPPER
        Done(s) ==
            IF f.legal_moves = 0
            THEN Return(s, p, FALSE, IF f.in_check THEN -VALUE_MATE + f.ply ELSE 0, f.pv)
            ELSE Return([s EXCEPT !.tt = tt_store(@, f.key, f.best_move, f.best_score, f.static_eval,
                                                  f.depth, bound, s.generation, f.ply)],
                        p, FALSE, f.best_score, f.pv)
    IN  Done(IF f.ply = 0 THEN [s0 EXCEPT !.root_legal_moves = f.legal_moves] ELSE s0)

\* the first call of search_node on the child of the move made: the full
\* window for the first legal move, the null window for the others
first_call(s, p, g) ==
    Invoke(s, p, [g EXCEPT !.label = "wait"],
           IF g.legal_moves = 1
           THEN Frame("search_node", g.depth - 1 + g.extension, -g.beta, -g.alpha, g.ply + 1, g.is_pv)
           ELSE Frame("search_node", g.depth - 1 + g.extension, -g.alpha - 1, -g.alpha, g.ply + 1, FALSE))

\* whether the move just made is tested for a singular extension
singular_test(s, f, move) ==
    /\ s.config.use_singular
    /\ s.config.max_extensions_per_pv_line > 0
    /\ f.is_pv
    /\ move = f.tt_move
    /\ f.tt_hit
    /\ f.tt_depth >= f.depth - 1
    /\ f.tt_bound = BOUND_LOWER
    /\ f.depth >= s.config.singular_min_depth
    /\ s.extensions_used[f.ply] < s.config.max_extensions_per_pv_line
    /\ Abs(f.tt_score) < MATE_SCORE_FOR_TT

\* one pass of the loop over singular_picker, up to the call of search_node
\* on the alternative; the move of the outer loop stays made meanwhile
search_node_singular(s, p, f) ==
    LET singular_target == f.tt_score - s.config.singular_margin_cp
        reduced_depth == Max(0, f.depth - 1 - s.config.singular_reduction)
        Made(alt, mr) ==
            IF ~mr.ok THEN Go(s, mr.pos, FALSE, [f EXCEPT !.alts = Tail(@)])
            ELSE Invoke(s, mr.pos,
                        [f EXCEPT !.label = "singular_wait", !.alts = Tail(@), !.alternatives = @ + 1],
                        Frame("search_node", reduced_depth, -singular_target - 1, -singular_target,
                              f.ply + 1, FALSE))
    IN  IF f.alts = <<>>
        THEN (IF f.alternatives > 0
              THEN first_call([s EXCEPT !.extensions_used =
                                            (f.ply + 1 :> s.extensions_used[f.ply] + 1) @@ @],
                              p, [f EXCEPT !.extension = 1])
              ELSE first_call(s, p, f))
        ELSE IF Head(f.alts) = f.move THEN Go(s, p, FALSE, [f EXCEPT !.alts = Tail(@)])
        ELSE Made(Head(f.alts), make_move(p, Head(f.alts)))

\* the singular loop from the return of search_node on the alternative:
\* the alternative is unmade; when stop_ is set search_node returns 0 here
search_node_singular_child(s, p, f, ret) ==
    LET singular_target == f.tt_score - s.config.singular_margin_cp
        Unmade(q) ==
            IF s.stop_ THEN Return(s, q, FALSE, 0, f.pv)
            ELSE IF -ret.score >= singular_target THEN first_call(s, q, f)
            ELSE Go(s, q, FALSE, [f EXCEPT !.label = "singular"])
    IN  Unmade(unmake_move(p))

\* Searcher::move_gives_check: the answer and the position it leaves
move_gives_check(p, move) ==
    LET Unmade(mr) ==
            IF ~mr.ok THEN [gives |-> FALSE, pos |-> mr.pos]
            ELSE [gives |-> in_check(mr.pos, mr.pos.side_to_move), pos |-> unmake_move(mr.pos)]
    IN  Unmade(make_move(p, move))

\* the futility test of the move loop: whether the move is skipped before it
\* is made, and the position the test leaves
futility_prune(s, p, f, move) ==
    LET can_futility == s.config.use_futility /\ f.depth <= s.config.futility_max_depth
        margin == s.config.futility_margin_base_cp + s.config.futility_margin_per_depth_cp * f.depth
        Probed(g) ==
            [skip |-> /\ ~g.gives
                      /\ p.non_pawn_material[p.side_to_move] > s.config.zugzwang_non_pawn_material_cp
                      /\ f.static_eval + margin <= f.alpha,
             pos  |-> g.pos]
    IN  IF ~is_capture(move) /\ ~is_promotion(move) /\ ~f.is_pv /\ ~f.in_check /\ can_futility
        THEN Probed(move_gives_check(p, move))
        ELSE [skip |-> FALSE, pos |-> p]

\* one pass of the move loop of search_node, up to the call of the child
search_node_move(s, p0, f) ==
    LET Made(move, mr) ==
            IF ~mr.ok THEN Go(s, mr.pos, FALSE, [f EXCEPT !.moves = Tail(@)])
            ELSE IF singular_test(s, f, move)
            THEN Go([s EXCEPT !.stack_ = (f.ply + 1 :> move) @@ @,
                              !.extensions_used = (f.ply + 1 :> s.extensions_used[f.ply]) @@ @],
                    mr.pos, FALSE,
                    [f EXCEPT !.label = "singular", !.moves = Tail(@), !.legal_moves = @ + 1,
                              !.move = move, !.research = FALSE, !.extension = 0,
                              !.alts = MovePicker(mr.pos, MOVE_NONE, FALSE, f.ctx),
                              !.alternatives = 0])
            ELSE first_call([s EXCEPT !.stack_ = (f.ply + 1 :> move) @@ @,
                                      !.extensions_used = (f.ply + 1 :> s.extensions_used[f.ply]) @@ @],
                            mr.pos,
                            [f EXCEPT !.moves = Tail(@), !.legal_moves = @ + 1,
                                      !.move = move, !.research = FALSE, !.extension = 0])
        Tested(move, t) ==
            IF t.skip THEN Go(s, t.pos, FALSE, [f EXCEPT !.moves = Tail(@)])
            ELSE Made(move, make_move(t.pos, move))
    IN  IF f.moves = <<>> THEN search_node_finish(s, p0, f)
        ELSE Tested(Head(f.moves), futility_prune(s, p0, f, Head(f.moves)))

\* the beta cutoff of a quiet move: killer and refutation tables
update_killers(s, ply, move) ==
    LET killers == Lookup(s.killer_moves, ply, <<MOVE_NONE, MOVE_NONE>>)
        prev    == s.stack_[ply]
    IN  [s EXCEPT !.killer_moves = IF move # killers[1]
                                   THEN (ply :> <<move, killers[1]>>) @@ @
                                   ELSE @,
                  !.refutation_moves = IF ply > 0 /\ ~is_none(prev)
                                       THEN (<<move_from(prev), move_to(prev)>> :> move) @@ @
                                       ELSE @]

\* search_node from the return of the child to the head of the move loop
search_node_child(s0, p, f, ret) ==
    LET score == -ret.score
        is_quiet == ~is_capture(f.move) /\ ~is_promotion(f.move)
        Scored(s, q) ==
            LET g == [f EXCEPT !.label = "loop",
                               !.best_score = IF score > @ THEN score ELSE @,
                               !.best_move = IF score > f.best_score THEN f.move ELSE @,
                               !.alpha = IF score > @ THEN score ELSE @,
                               !.pv = IF score > f.alpha THEN update_pv(f.move, ret.pv) ELSE @]
            IN  IF s.stop_ THEN Return(s, q, FALSE, 0, f.pv)
                ELSE IF g.alpha >= g.beta
                THEN search_node_finish(IF is_quiet THEN update_killers(s, f.ply, f.move) ELSE s, q, g)
                ELSE Go(s, q, FALSE, g)
    IN  IF f.legal_moves > 1 /\ ~f.research /\ score > f.alpha /\ score < f.beta
        THEN Invoke(s0, p, [f EXCEPT !.research = TRUE],
                    Frame("search_node", f.depth - 1 + f.extension, -f.beta, -f.alpha, f.ply + 1, f.is_pv))
        ELSE Scored([s0 EXCEPT !.stack_ = (f.ply + 1 :> MOVE_NONE) @@ @,
                               !.extensions_used = (f.ply + 1 :> 0) @@ @], unmake_move(p))

\* one pass of the move loop of qsearch, up to the call of the child
qsearch_move(s, p, f) ==
    LET Made(move, mr) ==
            IF ~mr.ok THEN Go(s, mr.pos, FALSE, [f EXCEPT !.moves = Tail(@)])
            ELSE Invoke(s, mr.pos,
                        [f EXCEPT !.label = "wait", !.moves = Tail(@), !.legal_moves = @ + 1, !.move = move],
                        Frame("qsearch", 0, -f.beta, -f.alpha, f.ply + 1, FALSE))
    IN  IF f.moves = <<>>
        THEN Return(s, p, FALSE, IF f.in_check /\ f.legal_moves = 0 THEN -VALUE_MATE + f.ply ELSE f.alpha, f.pv)
        ELSE Made(Head(f.moves), make_move(p, Head(f.moves)))

\* qsearch from the return of the child to the head of the move loop
qsearch_child(s, p, f, ret) ==
    LET score == -ret.score
        Scored(q) ==
            IF s.stop_ THEN Return(s, q, FALSE, 0, f.pv)
            ELSE IF score >= f.beta THEN Return(s, q, FALSE, score, f.pv)
            ELSE Go(s, q, FALSE, [f EXCEPT !.label = "loop",
                                           !.alpha = IF score > @ THEN score ELSE @,
                                           !.pv = IF score > f.alpha THEN update_pv(f.move, ret.pv) ELSE @])
    IN  Scored(unmake_move(p))

(***************************************************************************)
(* search.cpp: Searcher::search.  run holds its local variables: where it  *)
(* is (pc), the position it was called with (root), the loop variables,    *)
(* fallback_root_move and result.                                          *)
(***************************************************************************)
NoResult == [best_move |-> MOVE_NONE, score |-> 0, depth |-> 0, pv |-> <<>>, time_ms |-> 0]

Idle ==
    [pc |-> "idle", root |-> clear, depth |-> 0, max_depth |-> 0, alpha |-> 0, beta |-> 0,
     delta |-> 0, aspiration_fails |-> 0, nodes_before |-> 0, have_prev_score |-> FALSE,
     prev_score |-> 0, fallback_root_move |-> MOVE_NONE, result |-> NoResult]

\* the TimeManager and the Searcher as their constructors leave them
NewTimeManager ==
    [time_left_ms |-> 0, increment_ms |-> 0, moves_to_go |-> 0, available_ms |-> 0,
     optimum_time_ms |-> 0, effective_optimum_ms |-> 0, maximum_time_ms |-> 0,
     fixed_movetime |-> FALSE, emergency_mode |-> FALSE, nodes_as_time |-> FALSE,
     soft_node_budget |-> 0, hard_node_budget |-> 0, nps_ema |-> 0,
     next_check_node |-> 1024, check_period_nodes |-> 1024,
     last_stability_score |-> 0, last_complexity_x100 |-> 100]

\* the SearchConfig the searches run with unless options are set: the
\* optional prunings and extensions off, their parameters at the defaults
\* main.cpp announces
DefaultConfig ==
    [use_futility |-> FALSE, futility_max_depth |-> 4, futility_margin_base_cp |-> 80,
     futility_margin_per_depth_cp |-> 60, zugzwang_non_pawn_material_cp |-> 1200,
     use_singular |-> FALSE, singular_min_depth |-> 10, singular_reduction |-> 3,
     singular_margin_cp |-> 80, max_extensions_per_pv_line |-> 1]

NewSearcher ==
    [config |-> DefaultConfig,
     limits |-> DefaultLimits, nodes |-> 0, stop_ |-> FALSE, root_legal_moves |-> 0,
     previous_root_best_move |-> MOVE_NONE, rolling_bestmove_changes |-> 0,
     generation |-> 0, session_nps_ema |-> 0, tt |-> {},
     tm |-> NewTimeManager,
     killer_moves |-> <<>>, refutation_moves |-> <<>>, stack_ |-> (0 :> MOVE_NONE),
     extensions_used |-> (0 :> 0)]

\* search from its first statement to the head of the iteration loop
search_begin(s, p, limits) ==
    LET Rooted(legal) ==
            [s   |-> [s EXCEPT !.limits = limits, !.nodes = 0, !.stop_ = FALSE,
                               !.root_legal_moves = Len(legal.moves),
                               !.previous_root_best_move = MOVE_NONE,
                               !.rolling_bestmove_changes = 0,
                               !.generation = (@ + 1) % 256,
                               !.tm = tm_init(s.tm, limits, p.side_to_move, s.session_nps_ema),
                               !.stack_ = (0 :> MOVE_NONE),
                               !.extensions_used = (0 :> 0)],
             pos |-> legal.pos,
             run |-> [Idle EXCEPT !.pc = "iter", !.root = p, !.depth = 1,
                                  !.max_depth = IF limits.depth > 0 THEN limits.depth ELSE 64,
                                  !.fallback_root_move = IF Len(legal.moves) > 0 THEN legal.moves[1]
                                                         ELSE MOVE_NONE]]
    IN  Rooted(generate_legal(p))

\* the head of the iteration loop, up to the call of search_node
aspiration_window(run) ==
    IF run.depth >= 4 /\ run.have_prev_score
    THEN [alpha |-> Max(-VALUE_INFINITE, run.prev_score - ASPIRATION_INITIAL),
          beta  |-> Min(VALUE_INFINITE, run.prev_score + ASPIRATION_INITIAL)]
    ELSE [alpha |-> -VALUE_INFINITE, beta |-> VALUE_INFINITE]

search_iteration(s0, run, now) ==
    LET Begun(h) ==
            IF h.s.stop_
            THEN [s |-> h.s, read |-> h.read, run |-> [run EXCEPT !.pc = "end"], frames |-> <<>>]
            ELSE [s |-> h.s, read |-> h.read,
                  run |-> [run EXCEPT !.pc = "node",
                                      !.nodes_before = h.s.nodes,
                                      !.alpha = aspiration_window(run).alpha,
                                      !.beta = aspiration_window(run).beta,
                                      !.delta = ASPIRATION_INITIAL,
                                      !.aspiration_fails = 0],
                  frames |-> <<Frame("search_node", run.depth, aspiration_window(run).alpha,
                                     aspiration_window(run).beta, 0, TRUE)>>]
    IN  IF run.depth > run.max_depth
        THEN [s |-> s0, read |-> FALSE, run |-> [run EXCEPT !.pc = "end"], frames |-> <<>>]
        ELSE Begun(should_stop_hard(s0, now))

\* the aspiration loop after a fail low (score <= alpha)
aspiration_fail_low(run, score) ==
    [run EXCEPT !.pc = "node", !.aspiration_fails = @ + 1,
                !.beta = CDiv(run.alpha + run.beta, 2),
                !.alpha = Max(-VALUE_INFINITE, score - run.delta),
                !.delta = Min(run.delta * 2, ASPIRATION_MAX)]

aspiration_fail_high_uncapped(run, score) ==
    [run EXCEPT !.pc = "node", !.aspiration_fails = @ + 1,
                !.beta = Min(VALUE_INFINITE, score + run.delta),
                !.delta = run.delta * 2]

\* the aspiration loop after a fail high (score >= beta)
aspiration_fail_high(run, score) ==
    [run EXCEPT !.pc = "node", !.aspiration_fails = @ + 1,
                !.beta = Min(VALUE_INFINITE, score + run.delta),
                !.delta = Min(run.delta * 2, ASPIRATION_MAX)]

\* the iteration from the return of search_node to the head of the loop;
\* now and later are the two readings of the clock
search_root_return(s0, run, ret, now, later) ==
    LET score == ret.score
        Again(r) ==
            [s |-> s0, read |-> FALSE, run |-> r,
             frames |-> <<Frame("search_node", r.depth, r.alpha, r.beta, 0, TRUE)>>]
        best_move == IF Len(ret.pv) > 0 THEN ret.pv[1] ELSE MOVE_NONE
        nps == (s0.nodes * 1000) \div Max(1, now)
        bestmove_changed == run.depth > 1 /\ ~is_none(best_move) /\ s0.previous_root_best_move # best_move
        changes == IF bestmove_changed THEN Min(s0.rolling_bestmove_changes + 1, 8)
                   ELSE IF run.depth > 1 /\ s0.rolling_bestmove_changes > 0
                   THEN s0.rolling_bestmove_changes - 1
                   ELSE s0.rolling_bestmove_changes
        iteration ==
            [depth |-> run.depth, score |-> score,
             score_delta |-> IF run.have_prev_score THEN Abs(score - run.prev_score) ELSE 0,
             bestmove_changed |-> bestmove_changed, bestmove_changes |-> changes,
             aspiration_fails |-> run.aspiration_fails, root_legal_moves |-> s0.root_legal_moves,
             nodes_this_iter |-> s0.nodes - run.nodes_before, total_nodes |-> s0.nodes, nps |-> nps]
        Soft(soft) ==
            [s |-> [s0 EXCEPT !.tm = soft.tm, !.previous_root_best_move = best_move,
                              !.rolling_bestmove_changes = changes],
             read |-> TRUE,
             run |-> [run EXCEPT !.pc = IF soft.stop THEN "end" ELSE "iter",
                                 !.depth = IF soft.stop THEN @ ELSE @ + 1,
                                 !.prev_score = score, !.have_prev_score = TRUE,
                                 !.result = [@ EXCEPT !.score = score, !.depth = run.depth,
                                                      !.best_move = best_move, !.pv = ret.pv]],
             frames |-> <<>>]
    IN  IF s0.stop_ THEN [s |-> s0, read |-> FALSE, run |-> [run EXCEPT !.pc = "end"], frames |-> <<>>]
        ELSE IF score <= run.alpha
        THEN Again(aspiration_fail_low(run, score))
        ELSE IF score >= run.beta
        THEN Again(aspiration_fail_high(run, score))
        ELSE Soft(tm_should_stop_soft(tm_update_nps(s0.tm, nps), iteration, later))

\* search after the iteration loop
search_end(s, run, now) ==
    LET fallback == is_none(run.result.best_move) /\ ~is_none(run.fallback_root_move)
        nps == (s.nodes * 1000) \div now
    IN  [s   |-> [s EXCEPT !.session_nps_ema =
                      IF now > 0 /\ s.nodes > 0
                      THEN (IF @ <= 1 THEN nps ELSE (90 * @ + 10 * nps) \div 100)
                      ELSE @],
         run |-> [run EXCEPT !.pc = "idle",
                             !.result = [@ EXCEPT !.time_ms = now,
                                                  !.best_move = IF fallback THEN run.fallback_root_move ELSE @,
                                                  !.pv = IF fallback /\ @ = <<>> THEN <<run.fallback_root_move>> ELSE @]]]

(***************************************************************************)
(* The searches that are run: for a position, the limits of consecutive    *)
(* go commands                                                             *)
(***************************************************************************)
\* bare kings, a draw by rule: 4k3/8/8/8/8/8/8/4K3 w - - 0 1
FEN_BARE_KINGS ==
    << <<"4", "k", "3", "/", "8", "/", "8", "/", "8", "/", "8", "/", "8", "/", "8", "/", "4", "K", "3">>,
       <<"w">>,
       <<"-">>,
       <<"-">>,
       0,
       1 >>

\* a rook for a knight, two pawns each: r3k3/p6p/8/8/8/2N5/P6P/4K3 w - - 0 1
FEN_EXCHANGE_DOWN ==
    << <<"r", "3", "k", "3", "/", "p", "6", "p", "/", "8", "/", "8", "/", "8", "/", "2", "N", "5", "/", "P", "6", "P", "/", "4", "K", "3">>,
       <<"w">>,
       <<"-">>,
       <<"-">>,
       0,
       1 >>

\* a reading of the clock, in ms, that is past the time limits given below
LateMs == 25

ClockReadings == {0, LateMs}

\* the deepest search
MaxSearchDepth == 3

GoDepth(d) == [DefaultLimits EXCEPT !.depth = d]

GoNodes(n) == [DefaultLimits EXCEPT !.nodes = n]

\* go movetime 50: 20 ms are left after the move overhead
GoMoveTime(d) == [DefaultLimits EXCEPT !.movetime_ms = 50, !.depth = d]

\* go wtime 1000 btime 1000
GoClock(d) == [DefaultLimits EXCEPT !.wtime_ms = 1000, !.btime_ms = 1000, !.depth = d]

\* a bishop attacks a loose knight, a blocked pawn each:
\* 7k/8/8/p7/P1n5/8/8/5BK1 w - - 0 1
FEN_LOOSE_KNIGHT ==
    << <<"7", "k", "/", "8", "/", "8", "/", "p", "7", "/", "P", "1", "n", "5", "/", "8", "/", "8", "/", "5", "B", "K", "1">>,
       <<"w">>,
       <<"-">>,
       <<"-">>,
       0,
       1 >>

\* a pawn three steps from promotion, the black king too far to stop it:
\* 8/8/8/4P3/8/8/8/K6k w - - 0 1
FEN_PAWN_RACE ==
    << <<"8", "/", "8", "/", "8", "/", "4", "P", "3", "/", "8", "/", "8", "/", "8", "/", "K", "6", "k">>,
       <<"w">>,
       <<"-">>,
       <<"-">>,
       0,
       1 >>

\* go nodes 402: the limit is met in the first node below the root's
\* singular test of iteration 4
SingularNodes == 402

\* setoption Use Singular true, Singular Min Depth 4
SingularConfig ==
    [DefaultConfig EXCEPT !.use_singular = TRUE, !.singular_min_depth = 4]

\* setoption Use Futility true, Zugzwang Non Pawn Material CP 0
FutilityConfig ==
    [DefaultConfig EXCEPT !.use_futility = TRUE, !.zugzwang_non_pawn_material_cp = 0]

SearchCases ==
    { [fen |-> FEN_PINNED,        limits |-> <<GoDepth(2)>>, config |-> DefaultConfig],
      [fen |-> FEN_PINNED,        limits |-> <<GoNodes(1)>>, config |-> DefaultConfig],
      [fen |-> FEN_PINNED,        limits |-> <<GoNodes(5)>>, config |-> DefaultConfig],
      [fen |-> FEN_EXCHANGE_DOWN, limits |-> <<GoDepth(1), GoMoveTime(MaxSearchDepth)>>, config |-> DefaultConfig],
      [fen |-> FEN_PROMOTION,     limits |-> <<GoDepth(2)>>, config |-> DefaultConfig],
      [fen |-> FEN_REAL_EP,       limits |-> <<GoClock(2)>>, config |-> DefaultConfig],
      [fen |-> FEN_PHANTOM_EP,    limits |-> <<GoDepth(1)>>, config |-> DefaultConfig],
      [fen |-> FEN_BARE_KINGS,    limits |-> <<GoDepth(1)>>, config |-> DefaultConfig],
      [fen |-> FEN_CHECKMATE,     limits |-> <<GoDepth(1)>>, config |-> DefaultConfig],
      [fen |-> FEN_CHECKMATE,     limits |-> <<GoNodes(1)>>, config |-> DefaultConfig],
      [fen |-> FEN_CHECKMATE_50,  limits |-> <<GoDepth(1)>>, config |-> DefaultConfig],
      [fen |-> FEN_STALEMATE,     limits |-> <<GoDepth(1)>>, config |-> DefaultConfig],
      [fen |-> FEN_LOOSE_KNIGHT,  limits |-> <<GoDepth(MaxSearchDepth)>>, config |-> FutilityConfig],
      [fen |-> FEN_PAWN_RACE,     limits |-> <<GoDepth(MaxSearchDepth + 1)>>, config |-> SingularConfig],
      [fen |-> FEN_PAWN_RACE,     limits |-> <<GoNodes(SingularNodes)>>, config |-> SingularConfig] }

SearchFens == { c.fen : c \in SearchCases }

\* the options set before the go commands on a position
ConfigOf(f) == (CHOOSE c \in SearchCases : c.fen = f).config

NoReturn == [score |-> 0, pv |-> <<>>]

(***************************************************************************)
(* The hand-crafted evaluator's pawn hash: eval_tables.cpp's masks,        *)
(* eval_params.h's pawn terms, HCEEvaluator::compute_pawn_entry, the       *)
(* PawnHashTable, and the part of HCEEvaluator::evaluate that takes the    *)
(* pawn-structure, shelter and storm terms from the table.  The table is   *)
(* the set of its occupied slots; two different keys are taken to fall in  *)
(* different slots.                                                        *)
(***************************************************************************)
FILE_B == 1

FILE_G == 6

FILE_MASK(f) == { sq \in Squares : file_of(sq) = f }

ADJACENT_FILE_MASK(f) == { sq \in Squares : file_of(sq) = f - 1 \/ file_of(sq) = f + 1 }

FORWARD_MASK(c, sq) ==
    { t \in Squares : /\ file_of(t) = file_of(sq)
                      /\ IF c = WHITE THEN rank_of(t) > rank_of(sq) ELSE rank_of(t) < rank_of(sq) }

PASSED_MASK(c, sq) ==
    FORWARD_MASK(c, sq) \cap (FILE_MASK(file_of(sq)) \cup ADJACENT_FILE_MASK(file_of(sq)))

PASSED_PAWN_MG == <<0, 0, 10, 18, 36, 58, 96, 0, 0>>

PASSED_PAWN_EG == <<0, 0, 16, 30, 58, 96, 150, 0, 0>>

ISOLATED_PAWN_PENALTY_MG == 14

ISOLATED_PAWN_PENALTY_EG == 10

DOUBLED_PAWN_PENALTY_MG == 11

DOUBLED_PAWN_PENALTY_EG == 14

BACKWARD_PAWN_PENALTY_MG == 10

BACKWARD_PAWN_PENALTY_EG == 8

CANDIDATE_PAWN_BONUS_MG == 8

CANDIDATE_PAWN_BONUS_EG == 14

CONNECTED_PASSER_BONUS_MG == 12

CONNECTED_PASSER_BONUS_EG == 20

SUPPORTED_PASSER_BONUS_MG == 10

SUPPORTED_PASSER_BONUS_EG == 16

OUTSIDE_PASSER_BONUS_MG == 6

OUTSIDE_PASSER_BONUS_EG == 16

BLOCKED_PASSER_PENALTY_MG == 14

BLOCKED_PASSER_PENALTY_EG == 10

SHELTER_PAWN_BONUS == <<0, 34, 26, 18, 10, 6, 3, 0>>

STORM_PAWN_PENALTY == <<0, 8, 12, 18, 26, 34, 44, 0>>

make_score(mg, eg) == [mg |-> mg, eg |-> eg]

ScoreAdd(a, b) == make_score(a.mg + b.mg, a.eg + b.eg)

rel_rank(c, sq) == IF c = WHITE THEN rank_of(sq) ELSE 7 - rank_of(sq)

sign_for(c) == IF c = WHITE THEN 1 ELSE -1

\* what compute_pawn_entry finds out about the pawn of colour c on sq
PawnFeatures(p, c, sq) ==
    LET them     == Flip(c)
        our      == p.piece_bb[c][PAWN]
        enemy    == p.piece_bb[them][PAWN]
        file     == file_of(sq)
        Attacked(by, t) == \E s \in p.piece_bb[by][PAWN] : t \in attacks_pawn[by][s]
        stop     == IF c = WHITE THEN sq + 8 ELSE sq - 8
        blocked  == is_ok_square(stop) /\ p.board[stop] # NO_PIECE
        passed   == enemy \cap PASSED_MASK(c, sq) = {}
    IN  [isolated  |-> our \cap ADJACENT_FILE_MASK(file) = {},
         doubled   |-> popcount(our \cap FILE_MASK(file)) > 1,
         passed    |-> passed,
         supported |-> passed /\ Attacked(c, sq),
         connected |-> passed /\ our \cap ADJACENT_FILE_MASK(file) # {},
         outside   |-> passed /\ (file <= FILE_B \/ file >= FILE_G),
         blocked   |-> passed /\ blocked,
         candidate |-> ~passed /\ enemy \cap FORWARD_MASK(c, sq) = {},
         backward  |-> /\ blocked
                       /\ our \cap ADJACENT_FILE_MASK(file) \cap FORWARD_MASK(them, sq) = {}
                       /\ Attacked(them, stop),
         rr        |-> rel_rank(c, sq)]

RECURSIVE PassedSum(_, _)
PassedSum(table, rrs) ==
    IF rrs = <<>> THEN 0 ELSE table[Head(rrs) + 1] + PassedSum(table, Tail(rrs))

\* the shelter or storm term of one file next to the king, dist giving the
\* distance of each pawn of the file: the first pawn popped whose distance is
\* within 0..7 counts, the others do not
FirstPawnTerm(dist, table) ==
    LET within == { s \in DOMAIN dist : dist[s] >= 0 /\ dist[s] <= 7 }
    IN  IF within = {} THEN 0 ELSE table[dist[pop_lsb(within)] + 1]

compute_pawn_entry(p, pawn_key_with_kings) ==
    LET Feat == [c \in Colors |-> [sq \in p.piece_bb[c][PAWN] |-> PawnFeatures(p, c, sq)]]
        Num(c, Has(_)) == Cardinality({ sq \in DOMAIN Feat[c] : Has(Feat[c][sq]) })
        Term(mg, eg, Has(_)) ==
            make_score(mg * Num(WHITE, Has) - mg * Num(BLACK, Has),
                       eg * Num(WHITE, Has) - eg * Num(BLACK, Has))
        Isolated(f)  == f.isolated
        Doubled(f)   == f.doubled
        Passed(f)    == f.passed
        Supported(f) == f.supported
        Connected(f) == f.connected
        Outside(f)   == f.outside
        Blocked(f)   == f.blocked
        Candidate(f) == f.candidate
        Backward(f)  == f.backward
        PassedOf(c)  == { sq \in DOMAIN Feat[c] : Feat[c][sq].passed }
        Ranks(c)     == LET RECURSIVE Lst(_)
                            Lst(S) == IF S = {} THEN <<>>
                                      ELSE <<Feat[c][pop_lsb(S)].rr>> \o Lst(S \ {pop_lsb(S)})
                        IN  Lst(PassedOf(c))
        passed_score == make_score(PassedSum(PASSED_PAWN_MG, Ranks(WHITE)) - PassedSum(PASSED_PAWN_MG, Ranks(BLACK)),
                                   PassedSum(PASSED_PAWN_EG, Ranks(WHITE)) - PassedSum(PASSED_PAWN_EG, Ranks(BLACK)))
        isolated_score  == Term(-ISOLATED_PAWN_PENALTY_MG, -ISOLATED_PAWN_PENALTY_EG, Isolated)
        doubled_score   == Term(-DOUBLED_PAWN_PENALTY_MG, -DOUBLED_PAWN_PENALTY_EG, Doubled)
        backward_score  == Term(-BACKWARD_PAWN_PENALTY_MG, -BACKWARD_PAWN_PENALTY_EG, Backward)
        candidate_score == Term(CANDIDATE_PAWN_BONUS_MG, CANDIDATE_PAWN_BONUS_EG, Candidate)
        connected_score == Term(CONNECTED_PASSER_BONUS_MG, CONNECTED_PASSER_BONUS_EG, Connected)
        supported_score == Term(SUPPORTED_PASSER_BONUS_MG, SUPPORTED_PASSER_BONUS_EG, Supported)
        outside_score   == Term(OUTSIDE_PASSER_BONUS_MG, OUTSIDE_PASSER_BONUS_EG, Outside)
        blocked_score   == Term(-BLOCKED_PASSER_PENALTY_MG, -BLOCKED_PASSER_PENALTY_EG, Blocked)
        kf(c) == file_of(p.king_square[c])
        kr(c) == rank_of(p.king_square[c])
        ShelterDist(c, psq) == IF c = WHITE THEN rank_of(psq) - kr(c) ELSE kr(c) - rank_of(psq)
        StormDist(c, esq)   == IF c = WHITE THEN kr(c) - rank_of(esq) ELSE rank_of(esq) - kr(c)
        Shelter(c, f) == FirstPawnTerm([s \in p.piece_bb[c][PAWN] \cap FILE_MASK(f) |-> ShelterDist(c, s)],
                                       SHELTER_PAWN_BONUS)
        Storm(c, f)   == FirstPawnTerm([s \in p.piece_bb[Flip(c)][PAWN] \cap FILE_MASK(f) |-> StormDist(c, s)],
                                       STORM_PAWN_PENALTY)
    IN  [key              |-> pawn_key_with_kings,
         pawn_score       |-> ScoreAdd(ScoreAdd(ScoreAdd(ScoreAdd(passed_score, isolated_score),
                                                         ScoreAdd(doubled_score, backward_score)),
                                                ScoreAdd(ScoreAdd(candidate_score, connected_score),
                                                         ScoreAdd(supported_score, outside_score))),
                                       blocked_score),
         passed_score     |-> passed_score,
         isolated_score   |-> isolated_score,
         doubled_score    |-> doubled_score,
         backward_score   |-> backward_score,
         candidate_score  |-> candidate_score,
         connected_score  |-> connected_score,
         supported_score  |-> supported_score,
         outside_score    |-> outside_score,
         blocked_score    |-> blocked_score,
         passed           |-> [c \in Colors |-> PassedOf(c)],
         shelter_bonus_mg |-> [c \in Colors |-> Shelter(c, kf(c) - 1) + Shelter(c, kf(c)) + Shelter(c, kf(c) + 1)],
         storm_penalty_mg |-> [c \in Colors |-> Storm(c, kf(c) - 1) + Storm(c, kf(c)) + Storm(c, kf(c) + 1)]]

\* PawnHashTable::probe: the entries found, none or one
pawn_hash_probe(table, key) == { e \in table : e.key = key }

\* PawnHashTable::store
pawn_hash_store(table, entry) == { e \in table : e.key # entry.key } \cup { entry }

\* HCEEvaluator's constructor: an empty pawn hash, zeroed counters
NewEvaluator ==
    [pawn_hash |-> {},
     stats     |-> [eval_calls |-> 0, pawn_hash_hits |-> 0, pawn_hash_misses |-> 0]]

\* the EvalBreakdown fields evaluate fills from the pawn-hash entry
NoBreakdown ==
    [pawns_passed    |-> make_score(0, 0), pawns_isolated  |-> make_score(0, 0),
     pawns_doubled   |-> make_score(0, 0), pawns_backward  |-> make_score(0, 0),
     pawns_candidate |-> make_score(0, 0), pawns_connected |-> make_score(0, 0),
     pawns_supported |-> make_score(0, 0), pawns_outside   |-> make_score(0, 0),
     pawns_blocked   |-> make_score(0, 0), pawns           |-> make_score(0, 0),
     king_shelter    |-> make_score(0, 0), king_storm      |-> make_score(0, 0)]

\* HCEEvaluator::evaluate up to the shelter and storm terms: the key of the
\* pawns and the two king files, the probe, on a miss the computation and the
\* store, and the terms read from the entry
evaluate(ev, p) ==
    LET pawn_key == Xor(Xor(p.pawn_key,
                            Zobrist_pawn_file_king(WHITE, file_of(p.king_square[WHITE]))),
                        Zobrist_pawn_file_king(BLACK, file_of(p.king_square[BLACK])))
        cached   == pawn_hash_probe(ev.pawn_hash, pawn_key)
        Terms(entry, hit) ==
            [ev |-> [pawn_hash |-> IF hit THEN ev.pawn_hash ELSE pawn_hash_store(ev.pawn_hash, entry),
                     stats     |-> [eval_calls       |-> ev.stats.eval_calls + 1,
                                    pawn_hash_hits   |-> ev.stats.pawn_hash_hits + (IF hit THEN 1 ELSE 0),
                                    pawn_hash_misses |-> ev.stats.pawn_hash_misses + (IF hit THEN 0 ELSE 1)]],
             breakdown |->
                 [pawns_passed    |-> entry.passed_score,
                  pawns_isolated  |-> entry.isolated_score,
                  pawns_doubled   |-> entry.doubled_score,
                  pawns_backward  |-> entry.backward_score,
                  pawns_candidate |-> entry.candidate_score,
                  pawns_connected |-> entry.connected_score,
                  pawns_supported |-> entry.supported_score,
                  pawns_outside   |-> entry.outside_score,
                  pawns_blocked   |-> entry.blocked_score,
                  pawns           |-> ScoreAdd(ScoreAdd(ScoreAdd(ScoreAdd(entry.passed_score, entry.isolated_score),
                                                                 ScoreAdd(entry.doubled_score, entry.backward_score)),
                                                        ScoreAdd(ScoreAdd(entry.candidate_score, entry.connected_score),
                                                                 ScoreAdd(entry.supported_score, entry.outside_score))),
                                               entry.blocked_score),
                  king_shelter    |-> make_score(entry.shelter_bonus_mg[WHITE] - entry.shelter_bonus_mg[BLACK], 0),
                  king_storm      |-> make_score(-(entry.storm_penalty_mg[WHITE] - entry.storm_penalty_mg[BLACK]), 0)]]
    IN  IF cached # {}
        THEN Terms(CHOOSE e \in cached : TRUE, TRUE)
        ELSE Terms(compute_pawn_entry(p, pawn_key), FALSE)


\* a knight on the stop square of a passed pawn: 4k3/8/8/8/8/4n3/4P3/4K3 b - - 0 1
FEN_BLOCKED_PASSER ==
    << <<"4", "k", "3", "/", "8", "/", "8", "/", "8", "/", "8", "/", "4", "n", "3", "/", "4", "P", "3", "/", "4", "K", "3">>,
       <<"b">>,
       <<"-">>,
       <<"-">>,
       0,
       1 >>

\* the same with the colours exchanged: 4k3/4p3/4N3/8/8/8/8/4K3 w - - 0 1
FEN_BLOCKED_PASSER_BLACK ==
    << <<"4", "k", "3", "/", "4", "p", "3", "/", "4", "N", "3", "/", "8", "/", "8", "/", "8", "/", "8", "/", "4", "K", "3">>,
       <<"w">>,
       <<"-">>,
       <<"-">>,
       0,
       1 >>

\* the positions the evaluator is called on
EvalFens == { FEN_BLOCKED_PASSER, FEN_BLOCKED_PASSER_BLACK }

\* the number of static_eval calls made on one evaluator
MaxEvals == 2

(***************************************************************************)
(* lc0/lc0_evaluator.h, lc0_evaluator.cpp: the Lc0Evaluator, its result    *)
(* cache, its request queue and its worker pool.  A position key is a      *)
(* number; the cache is the set of the keys it holds an entry for; a       *)
(* request is named by its number and holds its key and the state of its   *)
(* promise.                                                                *)
(***************************************************************************)
FP32_SYNC == 1
FP32_ASYNC == 2
INT8_PLACEHOLDER == 3

\* the smallest cache limit set_cache_limit accepts
MIN_CACHE_LIMIT == 1024
\* cache_limit_ of a new evaluator: 1u << 18
DEFAULT_CACHE_LIMIT == 262144
\* batch_max_ and batch_wait_us_ of a new evaluator
DEFAULT_BATCH_MAX == 16
DEFAULT_BATCH_WAIT_US == 1000

\* the Lc0Evaluator after construction
NewLc0Evaluator ==
    [ready_         |-> FALSE,
     backend_       |-> FP32_SYNC,
     eval_threads_  |-> 1,
     batch_max_     |-> DEFAULT_BATCH_MAX,
     batch_wait_us_ |-> DEFAULT_BATCH_WAIT_US,
     cache_limit_   |-> DEFAULT_CACHE_LIMIT,
     eval_cache_    |-> {},
     stop_workers_  |-> FALSE,
     queue_         |-> <<>>,
     workers_       |-> {}]

probe_cache(e, key) == key \in e.eval_cache_

store_cache(e, key) ==
    [e EXCEPT !.eval_cache_ =
        (IF Cardinality(e.eval_cache_) >= e.cache_limit_ THEN {} ELSE e.eval_cache_) \cup {key}]

set_cache_limit(e, entries) == [e EXCEPT !.cache_limit_ = Max(entries, MIN_CACHE_LIMIT)]

\* the number of requests made, the caller threads, the worker threads, the
\* position keys evaluated through the queue, the keys the cache is filled with
MaxRequests == 2
MaxCallers == 2
MaxThreads == 2
MaxKey == 2
MaxCacheKeys == 1030

Requests == 1..MaxRequests
EvalCallers == 1..MaxCallers
Workers == 1..MaxThreads

\* no request has been made
NoRequests == [r \in Requests |-> [key |-> 0, promise |-> "none"]]
\* no worker thread runs
NoWorkers == [w \in Workers |-> [pc |-> "none", batch |-> <<>>]]
\* no thread is inside static_eval
NoCallers == [c \in EvalCallers |-> [pc |-> "idle", key |-> 0, req |-> 0]]
\* the configuring thread is inside no call
NoControl == [pc |-> "idle", restart |-> FALSE]

(***************************************************************************)
(* A transposition table written and read back: the scores and plies the   *)
(* store is called with                                                    *)
(***************************************************************************)
\* the scores next to 0 that are stored, and the distance from VALUE_MATE
\* down to which scores are stored
MaxTtScore == 40
MaxMateDistance == 300

TtScores ==
    (-VALUE_MATE .. -VALUE_MATE + MaxMateDistance) \cup (-MaxTtScore .. MaxTtScore)
        \cup (VALUE_MATE - MaxMateDistance .. VALUE_MATE)

TtPlies == 0 .. MAX_PLY - 1

TtKey == {"tt"}

NoTtCall == [made |-> FALSE, tt |-> {}, score |-> 0, ply |-> 0]

(***************************************************************************)
(* search.cpp: the shape of the tree search_node walks where null-move     *)
(* pruning is on. A node is its depth, ply and is_pv; what the position    *)
(* decides (check, material, static eval, scores) is left open.            *)
(***************************************************************************)
\* SearchConfig as constructed (search.h)
NmpConfig ==
    [use_nmp |-> TRUE, nmp_min_depth |-> 2, nmp_base_reduction |-> 5, nmp_depth_divisor |-> 6,
     nmp_verify_min_depth |-> 8]

\* the deepest iteration
MaxNullRootDepth == 11

\* the aspiration loop: the depth of the go command, and the largest k of
\* the root scores +-24 * 2^k
MaxAspirationDepth == 4
MaxAspirationStep == 6

\* the local variables of Searcher::search that the aspiration loop uses
NoAspiration ==
    [pc |-> "idle", depth |-> 1, alpha |-> 0, beta |-> 0, delta |-> 0, aspiration_fails |-> 0,
     have_prev_score |-> FALSE, prev_score |-> 0]

\* the largest int
INT_MAX == 2147483647

\* the limits of the go commands the time manager is run with: clocks with
\* and without movestogo, increment and a large overhead, so that the
\* remainder after overhead and reserve is positive, zero and negative and
\* the emergency mode is entered; a clock and a movetime of INT_MAX
\* milliseconds; fixed move times; infinite and ponder; no time at all
ClockLimits ==
    { [DefaultLimits EXCEPT !.wtime_ms = w, !.btime_ms = 100, !.winc_ms = i, !.binc_ms = -3,
                            !.movestogo = g, !.move_overhead_ms = o, !.nodes_as_time = n] :
        w \in {1, 100, 3000, 60000}, i \in {0, 2000}, g \in {0, 1, 40}, o \in {30, 10000}, n \in BOOLEAN }

HugeLimits ==
    { [DefaultLimits EXCEPT !.wtime_ms = INT_MAX, !.movestogo = g] : g \in {0, 1} }
        \cup { [DefaultLimits EXCEPT !.movetime_ms = INT_MAX] }

MovetimeLimits ==
    { [DefaultLimits EXCEPT !.movetime_ms = t, !.wtime_ms = 60000, !.move_overhead_ms = o, !.nodes_as_time = n] :
        t \in {1, 20, 5000}, o \in {30, 10000}, n \in BOOLEAN }

UnboundLimits ==
    { [DefaultLimits EXCEPT !.infinite = i, !.ponder = p, !.wtime_ms = w, !.nodes_as_time = n] :
        i \in BOOLEAN, p \in BOOLEAN, w \in {-1, 0, 60000}, n \in BOOLEAN }

TimeLimits == ClockLimits \cup HugeLimits \cup MovetimeLimits \cup UnboundLimits

\* the sides the searches are for: Black's clock is read in the clock cases
\* with 3000 ms on White's
TimeSides(limits) == IF limits.wtime_ms = 3000 THEN {WHITE, BLACK} ELSE {WHITE}

\* the IterationSummary records should_stop_soft is called with, by the
\* fields it reads; a changed best move has been counted
Iterations(tm) ==
    { [root_legal_moves |-> m, bestmove_changed |-> c, bestmove_changes |-> k, score_delta |-> d,
       aspiration_fails |-> f, total_nodes |-> n] :
        m \in {1, 3, 10, 30}, c \in BOOLEAN, k \in 0..2, d \in {0, 20, 40, 80}, f \in 0..2,
        n \in IF tm.nodes_as_time THEN {1, tm.soft_node_budget} ELSE {1} }
        \ { it \in [root_legal_moves : {1, 3, 10, 30}, bestmove_changed : {TRUE}, bestmove_changes : {0},
                    score_delta : {0, 20, 40, 80}, aspiration_fails : 0..2,
                    total_nodes : {1, tm.soft_node_budget}] : TRUE }

NoIteration ==
    [root_legal_moves |-> 0, bestmove_changed |-> FALSE, bestmove_changes |-> 0, score_delta |-> 0,
     aspiration_fails |-> 0, total_nodes |-> 0]

\* the readings of elapsed_ms() at a call
Readings(tm) ==
    {0, Max(1, tm.optimum_time_ms \div 2), tm.optimum_time_ms,
     tm.maximum_time_ms - 1, tm.maximum_time_ms, TIME_INF}

\* a knight and the kings: the knight and the black king can go out and
\* come back, 4k3/8/8/8/8/8/8/4K1N1 w - - 0 1
FEN_KNIGHT_HOME ==
    << <<"4", "k", "3", "/", "8", "/", "8", "/", "8", "/", "8", "/", "8", "/", "8", "/", "4", "K", "1", "N", "1">>,
       <<"w">>,
       <<"-">>,
       <<"-">>,
       0,
       1 >>

\* the same board later in a game, 4k3/8/8/8/8/8/8/4K1N1 w - - 40 30
FEN_KNIGHT_HOME_LATE ==
    << <<"4", "k", "3", "/", "8", "/", "8", "/", "8", "/", "8", "/", "8", "/", "8", "/", "4", "K", "1", "N", "1">>,
       <<"w">>,
       <<"-">>,
       <<"-">>,
       40,
       30 >>

\* Black to move with castling rights, r3k2r/8/8/8/8/8/8/R3K2R b KQkq - 0 1
FEN_ROOKS_HOME ==
    << <<"r", "3", "k", "2", "r", "/", "8", "/", "8", "/", "8", "/", "8", "/", "8", "/", "8", "/", "R", "3", "K", "2", "R">>,
       <<"b">>,
       <<"K", "Q", "k", "q">>,
       <<"-">>,
       0,
       1 >>

FeatureFens == {FEN_KNIGHT_HOME, FEN_KNIGHT_HOME_LATE, FEN_ROOKS_HOME}

\* the moves played before an evaluation: the knight g1-f3-g1, the kings
\* e8-e7-e8 and e1-e2-e1, as <<from, to>>
FeatureSteps == {<<6, 21>>, <<21, 6>>, <<60, 52>>, <<52, 60>>, <<4, 12>>, <<12, 4>>}

\* the plies played before an evaluation
MaxFeaturePlies == 4

(***************************************************************************)
(* lc0_features112.cpp and the cache of lc0_evaluator.cpp.  A plane is the *)
(* set of its squares that hold 1.0; the planes 110 and 111 are constant.  *)
(* The network is not interpreted: the CacheEntry of a forward pass names  *)
(* the planes it was run on.                                               *)
(***************************************************************************)
\* sq ^ 56 when mirror
plane_index(sq, mirror) == IF mirror THEN (7 - sq \div 8) * 8 + (sq % 8) ELSE sq

fill_plane_bb(bb, mirror) == { plane_index(sq, mirror) : sq \in bb }

\* the 13 planes of a history ply that cannot be reconstructed
EmptySlice == [pieces |-> [i \in 0..11 |-> {}], repetition |-> FALSE]

\* the 13 planes of the position s of a history ply
HistorySlice(s, ours, mirror) ==
    [pieces     |-> [i \in 0..11 |->
                        fill_plane_bb(s.piece_bb[IF i < 6 THEN ours ELSE Flip(ours)][(i % 6) + 1], mirror)],
     repetition |-> is_repetition(s)]

\* the iterations h..7 of the history loop, hist being the position of ply h - 1
RECURSIVE HistorySlices(_, _, _, _)
HistorySlices(hist, h, ours, mirror) ==
    IF h = 8 THEN <<>>
    ELSE IF h > 0 /\ hist.history = <<>> THEN [i \in 1..8 - h |-> EmptySlice]
    ELSE LET Slice(s) == <<HistorySlice(s, ours, mirror)>> \o HistorySlices(s, h + 1, ours, mirror)
         IN  Slice(IF h > 0 THEN unmake_move(hist) ELSE hist)

extract_features_112(p) ==
    LET stm == p.side_to_move
        cr  == p.castling_rights
    IN  [history      |-> HistorySlices(p, 0, stm, stm = BLACK),
         we_can_ooo   |-> And4(cr, IF stm = WHITE THEN WHITE_OOO ELSE BLACK_OOO) # 0,
         we_can_oo    |-> And4(cr, IF stm = WHITE THEN WHITE_OO ELSE BLACK_OO) # 0,
         they_can_ooo |-> And4(cr, IF stm = WHITE THEN BLACK_OOO ELSE WHITE_OOO) # 0,
         they_can_oo  |-> And4(cr, IF stm = WHITE THEN BLACK_OO ELSE WHITE_OO) # 0,
         black        |-> stm = BLACK,
         halfmove     |-> p.halfmove_clock]

run_forward_entry(planes) == [cp |-> planes]

\* evaluate_sync on the cache, a set of <<key, entry>>, fewer than
\* cache_limit_ = 2^18 of them: the entry and the cache afterwards
evaluate_cached(cache, key, planes) ==
    IF \E e \in cache : e[1] = key
    THEN [hit |-> TRUE, entry |-> (CHOOSE e \in cache : e[1] = key)[2], cache |-> cache]
    ELSE [hit |-> FALSE, entry |-> run_forward_entry(planes),
          cache |-> cache \cup {<<key, run_forward_entry(planes)>>}]

\* the positions set and the evaluations asked for in a session
MaxFeatureLoads == 2
MaxFeatureEvals == 2

\* no position yet, the cache empty
NoFeatureCall ==
    [op |-> "none", pos |-> clear, loads |-> 0, plies |-> 0, evals |-> 0, cache |-> {},
     hit |-> FALSE, entry |-> run_forward_entry(extract_features_112(clear))]

\* the king can take an undefended pawn: 4k3/8/8/8/8/8/4p3/4K3 w - - 0 1
FEN_KING_TAKES ==
    << <<"4", "k", "3", "/", "8", "/", "8", "/", "8", "/", "8", "/", "8", "/", "4", "p", "3", "/", "4", "K", "3">>,
       <<"w">>,
       <<"-">>,
       <<"-">>,
       0,
       1 >>

\* promotions by a push and by a capture: 3nk3/P3P3/8/8/8/8/8/4K3 w - - 0 1
FEN_QUIET_PROMOTION ==
    << <<"3", "n", "k", "3", "/", "P", "3", "P", "3", "/", "8", "/", "8", "/", "8", "/", "8", "/", "8", "/", "4", "K", "3">>,
       <<"w">>,
       <<"-">>,
       <<"-">>,
       0,
       1 >>

\* the positions MovePickers are built on
PickerFens == {FEN_QUIET_PROMOTION, FEN_DEFENDED_PAWN, FEN_KING_TAKES, FEN_ROOKS_HOME, FEN_REAL_EP}

\* e2e4, which none of these positions can play
StaleMove == Move(12, 28, 0, NO_PIECE_TYPE)

LeastMove(moves) == CHOOSE m \in moves : \A x \in moves : m <= x

GreatestMove(moves) == CHOOSE m \in moves : \A x \in moves : m >= x

\* the transposition-table moves a picker of search_node is given: none,
\* two moves of the position, and a move of another position
TtSuggestions(p) ==
    LET moves == SeqToSet(generate_pseudo_legal(p))
    IN  {MOVE_NONE, StaleMove, LeastMove(moves), GreatestMove(moves)}

\* the QuietOrderContext of search_node with the SEE term, a killer and a
\* counter move among the quiet moves, and no context (qsearch)
PickerContexts(p) ==
    LET quiet == { m \in SeqToSet(generate_pseudo_legal(p)) : ~is_capture(m) /\ ~is_promotion(m) }
    IN  {NullContext,
         [null |-> FALSE, use_see |-> TRUE, killer1 |-> GreatestMove(quiet), killer2 |-> MOVE_NONE,
          counter |-> LeastMove(quiet)]}

\* no MovePicker built yet: the position, the arguments of the constructor,
\* the picker, and what next() has returned so far
NoPicking ==
    [op |-> "none", pos |-> clear, ctx |-> NullContext,
     picker |-> [tt_move |-> MOVE_NONE, qsearch_only |-> FALSE, tt_done |-> FALSE, generated_count |-> 0,
                 good_captures |-> <<>>, quiets |-> <<>>, bad_captures |-> <<>>,
                 good_idx |-> 0, quiet_idx |-> 0, bad_idx |-> 0],
     returned |-> <<>>]


\* no call of the time manager yet: the call, its arguments, the
\* TimeManager before and after it and what it returned
NoTimeCall ==
    [op |-> "none", limits |-> DefaultLimits, us |-> WHITE, before |-> NewTimeManager,
     tm |-> NewTimeManager, planned |-> 0, it |-> NoIteration, nodes |-> 0, now |-> 0, stop |-> FALSE]

nmp_reduction(cfg, depth) ==
    Clamp(cfg.nmp_base_reduction + depth \div Max(1, cfg.nmp_depth_divisor), 1, depth - 1)

\* a search_node invocation: label is where it stands, r the reduction of
\* its null-move attempt, moves what the node reads of legal_moves: at a PV
\* node whether it is 0, 1 or more, elsewhere nothing
NullFrame(depth, ply, is_pv) ==
    [depth |-> depth, ply |-> ply, is_pv |-> is_pv, label |-> "enter", moves |-> 0, r |-> 0]

\* no search running; stack_[ply].did_null as SearchStackEntry{} has it
NoNullRun == [frames |-> <<>>, did_null |-> [ply \in 0..MaxNullRootDepth + 1 |-> FALSE]]

(***************************************************************************)
(* The state: a Position object, the FEN it was last given, whether that   *)
(* load succeeded, and the calls made on it since, with what they returned; *)
(* the Searcher, the frames of its running search_node and qsearch          *)
(* invocations, what the last one returned, the local variables of search,  *)
(* the last reading of the clock of the TimeManager, the limits of the     *)
(* searches begun; an HCEEvaluator and the EvalBreakdown its last call      *)
(* filled; an Lc0Evaluator, the requests made of it, its worker threads,    *)
(* the threads inside its static_eval and the thread that configures it     *)
(***************************************************************************)
VARIABLES pos, fen, loaded, log, searcher, frames, ret, run, clock, searches,
          evaluator, breakdown, lc0, requests, worker, caller, control, tt_call,
          nullrun, aspiration, timeman, nncall, picking

vars == <<pos, fen, loaded, log, searcher, frames, ret, run, clock, searches,
          evaluator, breakdown, lc0, requests, worker, caller, control, tt_call,
          nullrun, aspiration, timeman, nncall, picking>>

pvars == <<pos, fen, loaded, log>>

svars == <<searcher, frames, ret, run, clock, searches>>

evars == <<evaluator, breakdown>>

nvars == <<lc0, requests, worker, caller, control>>

tvars == <<tt_call>>

avars == <<nullrun, aspiration, timeman, nncall, picking>>

Call(op, move, ok, moves, nodes) ==
    [op |-> op, move |-> move, ok |-> ok, moves |-> moves, nodes |-> nodes]

\* Move values no generator produced for the position: a capture flag that
\* names an empty square, a move from an enemy square, a move from an empty one
ProbeMoves(p) ==
    LET us   == p.side_to_move
        ksq  == p.king_square[us]
        oksq == p.king_square[Flip(us)]
        Empty(sqs) == { t \in sqs : p.board[t] = NO_PIECE }
    IN  { Move(ksq, t, FLAG_CAPTURE, NO_PIECE_TYPE) : t \in Empty(attacks_king[ksq]) }
        \cup { Move(oksq, t, FLAG_NONE, NO_PIECE_TYPE) : t \in Empty(attacks_king[oksq]) }
        \cup { Move(t, ksq, FLAG_CAPTURE, NO_PIECE_TYPE) : t \in Empty(attacks_king[ksq]) }

CandidateMoves(p) == SeqToSet(generate_pseudo_legal(p)) \cup ProbeMoves(p)

Init ==
    /\ pos = clear
    /\ fen = <<>>
    /\ loaded = FALSE
    /\ log = <<>>
    /\ searcher = NewSearcher
    /\ frames = <<>>
    /\ ret = NoReturn
    /\ run = Idle
    /\ clock = 0
    /\ searches = <<>>
    /\ evaluator = NewEvaluator
    /\ breakdown = NoBreakdown
    /\ lc0 = NewLc0Evaluator
    /\ requests = NoRequests
    /\ worker = NoWorkers
    /\ caller = NoCallers
    /\ control = NoControl
    /\ tt_call = NoTtCall
    /\ nullrun = NoNullRun
    /\ aspiration = NoAspiration
    /\ timeman = NoTimeCall
    /\ nncall = NoFeatureCall
    /\ picking = NoPicking

\* each Position object is loaded once, right after its construction
SetFromFen(f) ==
    /\ fen = <<>>
    /\ \E r \in {set_from_fen(f)} :
          /\ pos' = r.pos
          /\ loaded' = r.ok
    /\ fen' = f
    /\ log' = <<>>
    /\ UNCHANGED <<svars, evars, tvars, avars, nvars>>

MakeMove(m) ==
    /\ loaded
    /\ fen \in PlayFens \cup EvalFens
    /\ Len(log) < MaxCalls
    /\ \E r \in {make_move(pos, m)} :
           /\ pos' = r.pos
           /\ log' = Append(log, Call("make_move", m, r.ok, <<>>, 0))
    /\ UNCHANGED <<fen, loaded>>
    /\ UNCHANGED <<svars, evars, tvars, avars, nvars>>

UnmakeMove ==
    /\ loaded
    /\ Len(log) < MaxCalls
    /\ pos.history # <<>>
    /\ ~pos.history[Len(pos.history)].is_null
    /\ pos' = unmake_move(pos)
    /\ log' = Append(log, Call("unmake_move", MOVE_NONE, TRUE, <<>>, 0))
    /\ UNCHANGED <<fen, loaded>>
    /\ UNCHANGED <<svars, evars, tvars, avars, nvars>>

MakeNullMove ==
    /\ loaded
    /\ fen \in PlayFens
    /\ Len(log) < MaxCalls
    /\ pos' = make_null_move(pos)
    /\ log' = Append(log, Call("make_null_move", MOVE_NONE, TRUE, <<>>, 0))
    /\ UNCHANGED <<fen, loaded>>
    /\ UNCHANGED <<svars, evars, tvars, avars, nvars>>

UnmakeNullMove ==
    /\ loaded
    /\ Len(log) < MaxCalls
    /\ pos.history # <<>>
    /\ pos.history[Len(pos.history)].is_null
    /\ pos' = unmake_null_move(pos)
    /\ log' = Append(log, Call("unmake_null_move", MOVE_NONE, TRUE, <<>>, 0))
    /\ UNCHANGED <<fen, loaded>>
    /\ UNCHANGED <<svars, evars, tvars, avars, nvars>>

GenerateLegal ==
    /\ loaded
    /\ fen \in PlayFens
    /\ Len(log) < MaxCalls
    /\ \E r \in {generate_legal(pos)} :
           /\ pos' = r.pos
           /\ log' = Append(log, Call("generate_legal", MOVE_NONE, TRUE, r.moves, 0))
    /\ UNCHANGED <<fen, loaded>>
    /\ UNCHANGED <<svars, evars, tvars, avars, nvars>>

\* static_exchange_eval on a capture of the position; nodes holds the value
StaticExchangeEval(m) ==
    /\ loaded
    /\ fen \in PlayFens
    /\ Len(log) < MaxCalls
    /\ is_capture(m)
    /\ log' = Append(log, Call("static_exchange_eval", m, TRUE, <<>>, static_exchange_eval(pos, m)))
    /\ UNCHANGED <<pos, fen, loaded>>
    /\ UNCHANGED <<svars, evars, tvars, avars, nvars>>

\* perft on a freshly loaded position, as tests/perft_tests.cpp runs it
Perft(depth) ==
    /\ loaded
    /\ log = <<>>
    /\ \A i \in 1..Len(PerftCases) : PerftCases[i].fen = fen => depth <= Len(PerftCases[i].counts)
    /\ \E r \in {perft(pos, depth)} :
           /\ pos' = r.pos
           /\ log' = Append(log, Call("perft", depth, TRUE, <<>>, r.nodes))
    /\ UNCHANGED <<fen, loaded>>
    /\ UNCHANGED <<svars, evars, tvars, avars, nvars>>

Next ==
    \/ \E f \in Fens : SetFromFen(f)
    \/ loaded /\ \E m \in CandidateMoves(pos) : MakeMove(m)
    \/ UnmakeMove
    \/ MakeNullMove
    \/ UnmakeNullMove
    \/ GenerateLegal
    \/ loaded /\ \E m \in SeqToSet(generate_pseudo_legal(pos)) : StaticExchangeEval(m)
    \/ \E d \in 1..MaxPerftDepth : Perft(d)

Spec == Init /\ [][Next]_vars

(***************************************************************************)
(* The searches: a Searcher built on the MaterialEvaluator is called on    *)
(* the loaded position, once or several times, as main.cpp calls it for    *)
(* the go commands of one session.                                         *)
(***************************************************************************)
Top == frames[Len(frames)]

Callers == SubSeq(frames, 1, Len(frames) - 1)

\* the readings the clock can give at or after the reading t
Later(t) == { u \in ClockReadings : u >= t }

IsPrefix(a, b) == Len(a) <= Len(b) /\ SubSeq(b, 1, Len(a)) = a

\* the effect of one step of the running frame on the state
Apply(r, now) ==
    /\ searcher' = r.s
    /\ pos' = r.pos
    /\ clock' = IF r.read THEN now ELSE clock
    /\ frames' = IF r.kind = "return" THEN Callers ELSE Callers \o r.frame \o r.child
    /\ ret' = IF r.kind = "return" THEN [score |-> r.score, pv |-> r.pv] ELSE ret
    /\ run' = IF r.kind = "return" /\ Callers = <<>> THEN [run EXCEPT !.pc = "root"] ELSE run
    /\ UNCHANGED <<fen, loaded, log, searches, evars, tvars, avars, nvars>>

SearchBegin(limits) ==
    /\ loaded
    /\ log = <<>>
    /\ run.pc = "idle"
    /\ \E c \in SearchCases : c.fen = fen /\ IsPrefix(Append(searches, limits), c.limits)
    /\ \E r \in {search_begin([searcher EXCEPT !.config = ConfigOf(fen)], pos, limits)} :
           /\ searcher' = r.s
           /\ pos' = r.pos
           /\ run' = r.run
    /\ searches' = Append(searches, limits)
    /\ clock' = 0
    /\ frames' = <<>>
    /\ ret' = NoReturn
    /\ UNCHANGED <<fen, loaded, log, evars, tvars, avars, nvars>>

SearchIteration ==
    /\ run.pc = "iter"
    /\ \E now \in Later(clock) : \E r \in {search_iteration(searcher, run, now)} :
           /\ searcher' = r.s
           /\ run' = r.run
           /\ frames' = r.frames
           /\ clock' = IF r.read THEN now ELSE clock
    /\ UNCHANGED <<pos, fen, loaded, log, ret, searches, evars, tvars, avars, nvars>>

SearchNodeEnter ==
    /\ run.pc = "node" /\ frames # <<>>
    /\ Top.fn = "search_node" /\ Top.label = "enter"
    /\ \E now \in Later(clock) : \E r \in {search_node_enter(searcher, pos, Top, now)} : Apply(r, now)

SearchNodeMove ==
    /\ run.pc = "node" /\ frames # <<>>
    /\ Top.fn = "search_node" /\ Top.label = "loop"
    /\ \E r \in {search_node_move(searcher, pos, Top)} : Apply(r, clock)

SearchNodeChild ==
    /\ run.pc = "node" /\ frames # <<>>
    /\ Top.fn = "search_node" /\ Top.label = "wait"
    /\ \E r \in {search_node_child(searcher, pos, Top, ret)} : Apply(r, clock)

SearchNodeSingular ==
    /\ run.pc = "node" /\ frames # <<>>
    /\ Top.fn = "search_node" /\ Top.label = "singular"
    /\ \E r \in {search_node_singular(searcher, pos, Top)} : Apply(r, clock)

SearchNodeSingularChild ==
    /\ run.pc = "node" /\ frames # <<>>
    /\ Top.fn = "search_node" /\ Top.label = "singular_wait"
    /\ \E r \in {search_node_singular_child(searcher, pos, Top, ret)} : Apply(r, clock)

QsearchEnter ==
    /\ run.pc = "node" /\ frames # <<>>
    /\ Top.fn = "qsearch" /\ Top.label = "enter"
    /\ \E now \in Later(clock) : \E r \in {qsearch_enter(searcher, pos, Top, now)} : Apply(r, now)

QsearchMove ==
    /\ run.pc = "node" /\ frames # <<>>
    /\ Top.fn = "qsearch" /\ Top.label = "loop"
    /\ \E r \in {qsearch_move(searcher, pos, Top)} : Apply(r, clock)

QsearchChild ==
    /\ run.pc = "node" /\ frames # <<>>
    /\ Top.fn = "qsearch" /\ Top.label = "wait"
    /\ \E r \in {qsearch_child(searcher, pos, Top, ret)} : Apply(r, clock)

SearchRootReturn ==
    /\ run.pc = "root"
    /\ \E now \in Later(clock) : \E later \in Later(now) :
       \E r \in {search_root_return(searcher, run, ret, now, later)} :
           /\ searcher' = r.s
           /\ run' = r.run
           /\ frames' = r.frames
           /\ clock' = IF r.read THEN later ELSE clock
    /\ UNCHANGED <<pos, fen, loaded, log, ret, searches, evars, tvars, avars, nvars>>

SearchEnd ==
    /\ run.pc = "end"
    /\ \E now \in Later(clock) : \E r \in {search_end(searcher, run, now)} :
           /\ searcher' = r.s
           /\ run' = r.run
           /\ clock' = now
    /\ UNCHANGED <<pos, fen, loaded, log, frames, ret, searches, evars, tvars, avars, nvars>>

SearchNext ==
    \/ \E f \in SearchFens : SetFromFen(f)
    \/ \E c \in SearchCases : \E i \in 1..Len(c.limits) : SearchBegin(c.limits[i])
    \/ SearchIteration
    \/ SearchNodeEnter
    \/ SearchNodeMove
    \/ SearchNodeChild
    \/ SearchNodeSingular
    \/ SearchNodeSingularChild
    \/ QsearchEnter
    \/ QsearchMove
    \/ QsearchChild
    \/ SearchRootReturn
    \/ SearchEnd

SearchSpec == Init /\ [][SearchNext]_vars

(***************************************************************************)
(* The evaluations: one HCEEvaluator is called on a Position before and    *)
(* after moves are made and unmade on it, as the search calls it on the    *)
(* positions of its tree                                                   *)
(***************************************************************************)
\* HCEEvaluator::static_eval
StaticEval ==
    /\ loaded
    /\ fen \in EvalFens
    /\ evaluator.stats.eval_calls < MaxEvals
    /\ \E r \in {evaluate(evaluator, pos)} :
           /\ evaluator' = r.ev
           /\ breakdown' = r.breakdown
    /\ UNCHANGED <<pos, fen, loaded, log, svars, nvars, tvars, avars>>

EvalNext ==
    \/ \E f \in EvalFens : SetFromFen(f)
    \/ loaded /\ \E m \in SeqToSet(generate_pseudo_legal(pos)) : MakeMove(m)
    \/ UnmakeMove
    \/ StaticEval

EvalSpec == Init /\ [][EvalNext]_vars

(***************************************************************************)
(* The Lc0Evaluator: threads that call static_eval, the worker threads and *)
(* the thread that loads weights and sets options, one action per stretch  *)
(* of code a thread runs without waiting and with the locks it holds       *)
(***************************************************************************)
RequestsMade == Cardinality({ r \in Requests : requests[r].promise # "none" })

\* the caller takes the queue rather than the synchronous forward pass
TakesQueue == lc0.backend_ = FP32_ASYNC /\ lc0.workers_ # {}

\* static_eval up to the choice between evaluate_async and evaluate_sync;
\* without weights it returns 0 at once
StaticEvalBegin(c, key) ==
    /\ caller[c].pc = "idle"
    /\ lc0.ready_
    /\ TakesQueue =>
          RequestsMade + Cardinality({ d \in EvalCallers : caller[d].pc = "async" }) < MaxRequests
    /\ caller' = [caller EXCEPT ![c] = [pc  |-> IF TakesQueue THEN "async" ELSE "sync",
                                        key |-> key, req |-> 0]]
    /\ UNCHANGED <<lc0, requests, worker, control, pvars, svars, evars, tvars, avars>>

EvaluateSync(c) ==
    /\ caller[c].pc = "sync"
    /\ lc0' = IF probe_cache(lc0, caller[c].key) THEN lc0 ELSE store_cache(lc0, caller[c].key)
    /\ caller' = [caller EXCEPT ![c] = [pc |-> "idle", key |-> 0, req |-> 0]]
    /\ UNCHANGED <<requests, worker, control, pvars, svars, evars, tvars, avars>>

\* evaluate_async up to fut.get()
EvaluateAsync(c) ==
    /\ caller[c].pc = "async"
    /\ IF probe_cache(lc0, caller[c].key)
       THEN /\ caller' = [caller EXCEPT ![c] = [pc |-> "idle", key |-> 0, req |-> 0]]
            /\ UNCHANGED <<lc0, requests>>
       ELSE /\ requests' = [requests EXCEPT ![RequestsMade + 1] =
                                [key |-> caller[c].key, promise |-> "pending"]]
            /\ lc0' = [lc0 EXCEPT !.queue_ = Append(@, RequestsMade + 1)]
            /\ caller' = [caller EXCEPT ![c].pc = "get", ![c].req = RequestsMade + 1]
    /\ UNCHANGED <<worker, control, pvars, svars, evars, tvars, avars>>

\* fut.get() returns the value or throws, and static_eval then falls back
\* to evaluate_sync
FutureGet(c) ==
    /\ caller[c].pc = "get"
    /\ requests[caller[c].req].promise # "pending"
    /\ caller' = [caller EXCEPT ![c] =
                    IF requests[caller[c].req].promise = "value"
                    THEN [pc |-> "idle", key |-> 0, req |-> 0]
                    ELSE [pc |-> "sync", key |-> caller[c].key, req |-> 0]]
    /\ UNCHANGED <<lc0, requests, worker, control, pvars, svars, evars, tvars, avars>>

\* the ways the batching loop of worker_loop can go on with the batch it
\* has: it takes further requests from the head of the queue, then either
\* leaves the loop (batch full, flush threshold passed, or nothing to wait
\* for) or waits on the condition variable with the queue empty
BatchOutcomes(e, batch0) ==
    LET Taken(k)   == batch0 \o SubSeq(e.queue_, 1, k)
        MayWait(k) == k = Len(e.queue_) /\ Len(Taken(k)) < e.batch_max_ /\ e.batch_wait_us_ # 0
    IN  { [batch |-> Taken(kp[1]),
           queue |-> SubSeq(e.queue_, kp[1] + 1, Len(e.queue_)),
           pc    |-> kp[2]] :
            kp \in { x \in (0..Min(Len(e.queue_), e.batch_max_ - Len(batch0)))
                              \X {"eval", "batch_wait"} :
                         x[2] = "batch_wait" => MayWait(x[1]) } }

\* worker_loop from the wait on the condition variable to the end of the
\* batching loop or to its wait
WorkerTake(w) ==
    /\ worker[w].pc = "wait"
    /\ lc0.stop_workers_ \/ lc0.queue_ # <<>>
    /\ IF lc0.stop_workers_
       THEN /\ worker' = [worker EXCEPT ![w].pc = "exited"]
            /\ UNCHANGED lc0
       ELSE \E o \in BatchOutcomes([lc0 EXCEPT !.queue_ = Tail(@)], <<Head(lc0.queue_)>>) :
                /\ worker' = [worker EXCEPT ![w] = [pc |-> o.pc, batch |-> o.batch]]
                /\ lc0' = [lc0 EXCEPT !.queue_ = o.queue]
    /\ UNCHANGED <<requests, caller, control, pvars, svars, evars, tvars, avars>>

\* wait_until returns in the batching loop: on the deadline the batch is
\* evaluated; woken with stop_workers_ set the worker returns, and its batch
\* is destroyed with the promises in it; woken with requests queued it
\* takes the first and goes on
WorkerWake(w) ==
    /\ worker[w].pc = "batch_wait"
    /\ \/ /\ worker' = [worker EXCEPT ![w].pc = "eval"]
          /\ UNCHANGED <<lc0, requests>>
       \/ /\ lc0.stop_workers_
          /\ worker' = [worker EXCEPT ![w] = [pc |-> "exited", batch |-> <<>>]]
          /\ requests' = [r \in Requests |->
                            IF r \in SeqToSet(worker[w].batch)
                            THEN [requests[r] EXCEPT !.promise = "broken"]
                            ELSE requests[r]]
          /\ UNCHANGED lc0
       \/ /\ ~lc0.stop_workers_
          /\ lc0.queue_ # <<>>
          /\ \E o \in BatchOutcomes([lc0 EXCEPT !.queue_ = Tail(@)],
                                     Append(worker[w].batch, Head(lc0.queue_))) :
                /\ worker' = [worker EXCEPT ![w] = [pc |-> o.pc, batch |-> o.batch]]
                /\ lc0' = [lc0 EXCEPT !.queue_ = o.queue]
          /\ UNCHANGED requests
    /\ UNCHANGED <<caller, control, pvars, svars, evars, tvars, avars>>

\* one round of the loop over the batch: the cache is probed, on a miss the
\* forward pass runs and its result is stored; the promise gets the value,
\* or the exception the forward pass threw
WorkerEval(w) ==
    /\ worker[w].pc = "eval"
    /\ \E r \in {Head(worker[w].batch)} :
       \E forward_throws \in IF probe_cache(lc0, requests[r].key) THEN {FALSE} ELSE BOOLEAN :
          /\ lc0' = IF forward_throws \/ probe_cache(lc0, requests[r].key) THEN lc0
                    ELSE store_cache(lc0, requests[r].key)
          /\ requests' = [requests EXCEPT ![r].promise =
                             IF forward_throws THEN "error" ELSE "value"]
    /\ worker' = [worker EXCEPT ![w] = [pc    |-> IF Len(worker[w].batch) = 1 THEN "wait" ELSE "eval",
                                        batch |-> Tail(worker[w].batch)]]
    /\ UNCHANGED <<caller, control, pvars, svars, evars, tvars, avars>>

\* load_weights, set_backend and set_eval_threads up to their call of
\* restart_workers or stop_workers
LoadWeights(ok) ==
    /\ control.pc = "idle"
    /\ lc0' = IF ok THEN [lc0 EXCEPT !.ready_ = TRUE, !.eval_cache_ = {}]
              ELSE [lc0 EXCEPT !.ready_ = FALSE]
    /\ control' = [pc |-> "stop_flag", restart |-> ok]
    /\ UNCHANGED <<requests, worker, caller, pvars, svars, evars, tvars, avars>>

SetBackend(backend) ==
    /\ control.pc = "idle"
    /\ lc0' = [lc0 EXCEPT !.backend_ = backend]
    /\ control' = [pc |-> "stop_flag", restart |-> TRUE]
    /\ UNCHANGED <<requests, worker, caller, pvars, svars, evars, tvars, avars>>

SetEvalThreads(threads) ==
    /\ control.pc = "idle"
    /\ lc0' = [lc0 EXCEPT !.eval_threads_ = Clamp(threads, 1, 64)]
    /\ control' = [pc |-> "stop_flag", restart |-> TRUE]
    /\ UNCHANGED <<requests, worker, caller, pvars, svars, evars, tvars, avars>>

\* stop_workers: the flag is set under the queue mutex, the workers notified
StopWorkersFlag ==
    /\ control.pc = "stop_flag"
    /\ lc0' = [lc0 EXCEPT !.stop_workers_ = TRUE]
    /\ control' = [control EXCEPT !.pc = "join"]
    /\ UNCHANGED <<requests, worker, caller, pvars, svars, evars, tvars, avars>>

\* stop_workers: every worker thread is joined, workers_ cleared
StopWorkersJoin ==
    /\ control.pc = "join"
    /\ \A w \in lc0.workers_ : worker[w].pc = "exited"
    /\ worker' = [w \in Workers |-> IF w \in lc0.workers_ THEN [pc |-> "none", batch |-> <<>>]
                                     ELSE worker[w]]
    /\ lc0' = [lc0 EXCEPT !.workers_ = {}]
    /\ control' = [control EXCEPT !.pc = "drain"]
    /\ UNCHANGED <<requests, caller, pvars, svars, evars, tvars, avars>>

\* stop_workers: under the queue mutex every queued request gets the
\* "lc0 async worker stopped" exception and the flag is reset
StopWorkersDrain ==
    /\ control.pc = "drain"
    /\ requests' = [r \in Requests |->
                      IF r \in SeqToSet(lc0.queue_)
                      THEN [requests[r] EXCEPT !.promise = "stopped"]
                      ELSE requests[r]]
    /\ lc0' = [lc0 EXCEPT !.queue_ = <<>>, !.stop_workers_ = FALSE]
    /\ control' = [control EXCEPT !.pc = IF control.restart THEN "spawn" ELSE "idle"]
    /\ UNCHANGED <<worker, caller, pvars, svars, evars, tvars, avars>>

\* restart_workers after its stop_workers
RestartWorkersSpawn ==
    /\ control.pc = "spawn"
    /\ IF ~lc0.ready_ \/ lc0.backend_ # FP32_ASYNC
       THEN UNCHANGED <<lc0, worker>>
       ELSE /\ lc0' = [lc0 EXCEPT !.stop_workers_ = FALSE, !.workers_ = 1..lc0.eval_threads_]
            /\ worker' = [w \in Workers |-> IF w <= lc0.eval_threads_
                                             THEN [pc |-> "wait", batch |-> <<>>]
                                             ELSE worker[w]]
    /\ control' = [control EXCEPT !.pc = "idle"]
    /\ UNCHANGED <<requests, caller, pvars, svars, evars, tvars, avars>>

\* set_cache_limit, called between the calls above
SetCacheLimit(entries) ==
    /\ control.pc = "idle"
    /\ lc0' = set_cache_limit(lc0, entries)
    /\ UNCHANGED <<requests, worker, caller, control, pvars, svars, evars, tvars, avars>>

CallerStep(c) == EvaluateSync(c) \/ EvaluateAsync(c) \/ FutureGet(c)

WorkerStep(w) == WorkerTake(w) \/ WorkerWake(w) \/ WorkerEval(w)

ControlStep == StopWorkersFlag \/ StopWorkersJoin \/ StopWorkersDrain \/ RestartWorkersSpawn

PoolNext ==
    \/ \E ok \in BOOLEAN : LoadWeights(ok)
    \/ \E b \in {FP32_SYNC, FP32_ASYNC} : SetBackend(b)
    \/ \E n \in 1..MaxThreads : SetEvalThreads(n)
    \/ ControlStep
    \/ \E c \in EvalCallers : \E key \in 1..MaxKey : StaticEvalBegin(c, key)
    \/ \E c \in EvalCallers : CallerStep(c)
    \/ \E w \in Workers : WorkerStep(w)

\* a thread that can take a step takes one; when options are set and when
\* static_eval is called is up to the user
PoolSpec ==
    /\ Init /\ [][PoolNext]_vars
    /\ WF_vars(ControlStep)
    /\ \A c \in EvalCallers : WF_vars(CallerStep(c))
    /\ \A w \in Workers : WF_vars(WorkerStep(w))

(***************************************************************************)
(* The transposition table: store is called on an empty table with a      *)
(* score and the ply of the node, and the entry is read back at that ply.  *)
(***************************************************************************)
TtStore(score, ply) ==
    /\ tt_call' = [made  |-> TRUE,
                   tt    |-> tt_store(tt_call.tt, TtKey, MOVE_NONE, score, 0, 0, BOUND_EXACT, 0, ply),
                   score |-> score,
                   ply   |-> ply]
    /\ UNCHANGED <<pvars, svars, evars, nvars, avars>>

\* one store on each table
TtNext == ~tt_call.made /\ \E score \in TtScores : \E ply \in TtPlies : TtStore(score, ply)

TtSpec == Init /\ [][TtNext]_vars

(***************************************************************************)
(* The aspiration loop of Searcher::search from iteration 4 on: the local  *)
(* variables of the loop, with what search_node returns for the root any   *)
(* score of a list, so that every course of fail lows and fail highs is    *)
(* taken.                                                                  *)
(***************************************************************************)
\* the scores the root search may return: steps that keep up with the
\* doubling margin, some scores below them, and the mate scores
AspirationScores ==
    {-VALUE_MATE, -96, -24, 0, VALUE_MATE} \cup { 24 * (2 ^ k) : k \in 0..MaxAspirationStep }

\* the iterations of depth 1 to 3 are done, the last one with the score prev
AspirationBegin(prev) ==
    /\ aspiration.pc = "idle"
    /\ aspiration' = [aspiration EXCEPT !.pc = "iter", !.depth = 4,
                                        !.have_prev_score = TRUE, !.prev_score = prev]
    /\ UNCHANGED <<pvars, svars, evars, nvars, tvars, nullrun, timeman, nncall, picking>>

\* the head of the iteration loop: the window of the first root search
AspirationIteration ==
    /\ aspiration.pc = "iter"
    /\ aspiration' =
          IF aspiration.depth > MaxAspirationDepth THEN [aspiration EXCEPT !.pc = "end"]
          ELSE [aspiration EXCEPT !.pc = "node",
                                  !.alpha = aspiration_window(aspiration).alpha,
                                  !.beta = aspiration_window(aspiration).beta,
                                  !.delta = ASPIRATION_INITIAL,
                                  !.aspiration_fails = 0]
    /\ UNCHANGED <<pvars, svars, evars, nvars, tvars, nullrun, timeman, nncall, picking>>

\* search_node on the root returns the score, stop_ not set: a fail low, a
\* fail high, or the end of the iteration
RootSearched(score) ==
    /\ aspiration.pc = "node"
    /\ aspiration' =
          IF score <= aspiration.alpha THEN aspiration_fail_low(aspiration, score)
          ELSE IF score >= aspiration.beta THEN aspiration_fail_high(aspiration, score)
          ELSE [aspiration EXCEPT !.pc = "iter", !.depth = @ + 1,
                                  !.prev_score = score, !.have_prev_score = TRUE]
    /\ UNCHANGED <<pvars, svars, evars, nvars, tvars, nullrun, timeman, nncall, picking>>

\* search() returns
AspirationEnd ==
    /\ aspiration.pc = "end"
    /\ aspiration' = NoAspiration
    /\ UNCHANGED <<pvars, svars, evars, nvars, tvars, nullrun, timeman, nncall, picking>>

AspirationNext ==
    \/ aspiration.pc = "idle" /\ \E prev \in AspirationScores : AspirationBegin(prev)
    \/ AspirationIteration
    \/ aspiration.pc = "node" /\ \E score \in AspirationScores : RootSearched(score)
    \/ AspirationEnd

AspirationSpec == Init /\ [][AspirationNext]_vars /\ WF_vars(AspirationNext)

(***************************************************************************)
(* The time manager of one search: init at the go command, then update_nps *)
(* and the soft check after an iteration, or the hard check at a node.     *)
(***************************************************************************)
TmInit(limits, us) ==
    /\ timeman.op = "none"
    /\ timeman' = [timeman EXCEPT !.op = "init", !.limits = limits, !.us = us,
                                  !.tm = tm_init(timeman.tm, limits, us, 0),
                                  !.planned = tm_budget(limits, us).planned]
    /\ UNCHANGED <<pvars, svars, evars, nvars, tvars, nullrun, aspiration, nncall, picking>>

TmUpdateNps(nps) ==
    /\ timeman.op = "init"
    /\ timeman' = [timeman EXCEPT !.op = "update_nps", !.before = timeman.tm,
                                  !.tm = tm_update_nps(timeman.tm, nps)]
    /\ UNCHANGED <<pvars, svars, evars, nvars, tvars, nullrun, aspiration, nncall, picking>>

TmShouldStopHard(total_nodes, explicit_node_limit, now) ==
    /\ timeman.op \in {"init", "update_nps"}
    /\ LET r == tm_should_stop_hard(timeman.tm, total_nodes, explicit_node_limit, FALSE, now)
       IN  timeman' = [timeman EXCEPT !.op = "should_stop_hard", !.before = timeman.tm, !.tm = r.tm,
                                      !.nodes = total_nodes, !.now = now, !.stop = r.stop]
    /\ UNCHANGED <<pvars, svars, evars, nvars, tvars, nullrun, aspiration, nncall, picking>>

TmShouldStopSoft(it, now) ==
    /\ timeman.op \in {"init", "update_nps"}
    /\ LET r == tm_should_stop_soft(timeman.tm, it, now)
       IN  timeman' = [timeman EXCEPT !.op = "should_stop_soft", !.before = timeman.tm, !.tm = r.tm,
                                      !.it = it, !.now = now, !.stop = r.stop]
    /\ UNCHANGED <<pvars, svars, evars, nvars, tvars, nullrun, aspiration, nncall, picking>>

TmNext ==
    \/ timeman.op = "none" /\ \E limits \in TimeLimits : \E us \in TimeSides(limits) : TmInit(limits, us)
    \/ timeman.op = "init" /\ \E nps \in {0, 400000} : TmUpdateNps(nps)
    \/ timeman.op \in {"init", "update_nps"}
          /\ \E total_nodes \in {0, timeman.tm.next_check_node} : \E now \in Readings(timeman.tm) :
                 TmShouldStopHard(total_nodes, 0, now)
    \/ timeman.op \in {"init", "update_nps"}
          /\ \E it \in Iterations(timeman.tm) : \E now \in Readings(timeman.tm) : TmShouldStopSoft(it, now)

TmSpec == Init /\ [][TmNext]_vars

(***************************************************************************)
(* The evaluator's cache over a session: positions are set up, moves are   *)
(* played on them as parse_uci_move admits them, and static_eval is asked  *)
(* for the position on the board.                                          *)
(***************************************************************************)
FeatureLoad(f) ==
    /\ nncall.loads < MaxFeatureLoads
    /\ nncall' = [nncall EXCEPT !.op = "set_from_fen", !.pos = set_from_fen(f).pos,
                                !.loads = @ + 1, !.plies = 0]
    /\ UNCHANGED <<pvars, svars, evars, nvars, tvars, nullrun, aspiration, timeman, picking>>

FeatureMakeMove(r, m) ==
    /\ nncall.loads > 0
    /\ nncall.plies < MaxFeaturePlies
    /\ nncall' = [nncall EXCEPT !.op = "make_move", !.pos = make_move(r.pos, m).pos, !.plies = @ + 1]
    /\ UNCHANGED <<pvars, svars, evars, nvars, tvars, nullrun, aspiration, timeman, picking>>

FeatureStaticEval ==
    /\ nncall.loads > 0
    /\ nncall.evals < MaxFeatureEvals
    /\ LET r == evaluate_cached(nncall.cache, nncall.pos.key, extract_features_112(nncall.pos))
       IN  nncall' = [nncall EXCEPT !.op = "static_eval", !.evals = @ + 1, !.cache = r.cache,
                                    !.hit = r.hit, !.entry = r.entry]
    /\ UNCHANGED <<pvars, svars, evars, nvars, tvars, nullrun, aspiration, timeman, picking>>

FeatureNext ==
    \/ nncall.loads < MaxFeatureLoads /\ \E f \in FeatureFens : FeatureLoad(f)
    \/ /\ nncall.loads > 0
       /\ nncall.plies < MaxFeaturePlies
       /\ \E r \in {generate_legal(nncall.pos)} :
              \E m \in { x \in SeqToSet(r.moves) : <<move_from(x), move_to(x)>> \in FeatureSteps } :
                  FeatureMakeMove(r, m)
    \/ FeatureStaticEval

FeatureSpec == Init /\ [][FeatureNext]_vars

(***************************************************************************)
(* A MovePicker: built on a position, then asked for its moves until it    *)
(* returns the null move.                                                  *)
(***************************************************************************)
PickerNew(p, tt_move, qsearch_only, ctx) ==
    /\ picking.op = "none"
    /\ picking' = [picking EXCEPT !.op = "new", !.pos = p, !.ctx = ctx,
                                  !.picker = picker_new(p, tt_move, qsearch_only, ctx)]
    /\ UNCHANGED <<pvars, svars, evars, nvars, tvars, nullrun, aspiration, timeman, nncall>>

PickerNextCall ==
    /\ picking.op \in {"new", "next"}
    /\ LET r == picker_next(picking.picker)
       IN  picking' = [picking EXCEPT !.op = IF is_none(r.move) THEN "end" ELSE "next",
                                      !.picker = r.picker,
                                      !.returned = Append(@, [move |-> r.move, phase |-> r.phase])]
    /\ UNCHANGED <<pvars, svars, evars, nvars, tvars, nullrun, aspiration, timeman, nncall>>

PickerNextStep ==
    \/ /\ picking.op = "none"
       /\ \E f \in PickerFens : \E p \in {set_from_fen(f).pos} :
              \E qsearch_only \in BOOLEAN : \E ctx \in PickerContexts(p) :
                  \E tt_move \in IF qsearch_only THEN {MOVE_NONE} ELSE TtSuggestions(p) :
                      PickerNew(p, tt_move, qsearch_only, ctx)
    \/ PickerNextCall

PickerSpec == Init /\ [][PickerNextStep]_vars

(***************************************************************************)
(* Null-move pruning in the tree of search_node. Each action is a stretch  *)
(* of search_node between two of its recursive calls; the conditions that  *)
(* depend on the position are choices. Late-move reductions and extensions *)
(* are off.                                                                *)
(***************************************************************************)
NullTop == nullrun.frames[Len(nullrun.frames)]

NullPop == SubSeq(nullrun.frames, 1, Len(nullrun.frames) - 1)

NullCall(parent, child) == Append(NullPop, parent) \o <<child>>

\* Searcher::search: an iteration calls search_node on the root
NullSearch(depth) ==
    /\ nullrun.frames = <<>>
    /\ nullrun' = [frames |-> <<NullFrame(depth, 0, TRUE)>>,
                   did_null |-> [nullrun.did_null EXCEPT ![0] = FALSE]]
    /\ UNCHANGED <<pvars, svars, evars, nvars, tvars, aspiration, timeman, nncall, picking>>

\* search_node from its entry: qsearch at depth <= 0, else the null-move
\* test; conditions is the part of the test that the position decides
NullEnter(conditions) ==
    /\ nullrun.frames # <<>> /\ NullTop.label = "enter"
    /\ LET f == NullTop
           attempt == /\ NmpConfig.use_nmp
                      /\ f.depth >= NmpConfig.nmp_min_depth
                      /\ ~f.is_pv
                      /\ ~nullrun.did_null[f.ply]
                      /\ conditions
           r == nmp_reduction(NmpConfig, f.depth)
       IN  nullrun' =
             IF f.depth <= 0 THEN [nullrun EXCEPT !.frames = NullPop]
             ELSE IF attempt
             THEN [frames   |-> NullCall([f EXCEPT !.label = "null_wait", !.r = r],
                                         NullFrame(f.depth - 1 - r, f.ply + 1, FALSE)),
                   did_null |-> [nullrun.did_null EXCEPT ![f.ply + 1] = TRUE]]
             ELSE [nullrun EXCEPT !.frames = Append(NullPop, [f EXCEPT !.label = "loop"])]
    /\ UNCHANGED <<pvars, svars, evars, nvars, tvars, aspiration, timeman, nncall, picking>>

\* the null search has returned: the stack entry is reset; the node returns
\* (stop_, or a cutoff that is not verified), verifies, or goes on
NullReturned(outcome) ==
    /\ nullrun.frames # <<>> /\ NullTop.label = "null_wait"
    /\ LET f == NullTop
           reset == [nullrun.did_null EXCEPT ![f.ply + 1] = FALSE]
       IN  nullrun' =
             CASE outcome = "return" -> [frames |-> NullPop, did_null |-> reset]
               [] outcome = "verify" ->
                    [frames   |-> NullCall([f EXCEPT !.label = "verify_wait"],
                                           NullFrame(f.depth - 1 - f.r, f.ply, FALSE)),
                     did_null |-> reset]
               [] OTHER -> [frames |-> Append(NullPop, [f EXCEPT !.label = "loop"]), did_null |-> reset]
    /\ UNCHANGED <<pvars, svars, evars, nvars, tvars, aspiration, timeman, nncall, picking>>

\* the verification search has returned: a cutoff, or on to the moves
NullVerified(cutoff) ==
    /\ nullrun.frames # <<>> /\ NullTop.label = "verify_wait"
    /\ nullrun' = [nullrun EXCEPT !.frames =
                      IF cutoff THEN NullPop ELSE Append(NullPop, [NullTop EXCEPT !.label = "loop"])]
    /\ UNCHANGED <<pvars, svars, evars, nvars, tvars, aspiration, timeman, nncall, picking>>

\* the move loop makes a move and calls search_node on the child: with the
\* window of the node for the first move, with a null window for the others
NullMakeMove ==
    /\ nullrun.frames # <<>> /\ NullTop.label = "loop"
    /\ LET f == NullTop
       IN  nullrun' =
             [frames   |-> NullCall([f EXCEPT !.label = "wait",
                                              !.moves = IF f.is_pv THEN Min(@ + 1, 2) ELSE @],
                                    NullFrame(f.depth - 1, f.ply + 1, f.is_pv /\ f.moves = 0)),
              did_null |-> [nullrun.did_null EXCEPT ![f.ply + 1] = FALSE]]
    /\ UNCHANGED <<pvars, svars, evars, nvars, tvars, aspiration, timeman, nncall, picking>>

\* the child has returned: a PV node may search a later move again with its
\* full window; then the move is unmade and the stack entry reset
NullChildReturned(research) ==
    /\ nullrun.frames # <<>> /\ NullTop.label \in {"wait", "research"}
    /\ LET f == NullTop
       IN  nullrun' =
             IF research /\ f.label = "wait" /\ f.is_pv /\ f.moves > 1
             THEN [nullrun EXCEPT !.frames = NullCall([f EXCEPT !.label = "research"],
                                                      NullFrame(f.depth - 1, f.ply + 1, TRUE))]
             ELSE [frames   |-> Append(NullPop, [f EXCEPT !.label = "loop"]),
                   did_null |-> [nullrun.did_null EXCEPT ![f.ply + 1] = FALSE]]
    /\ UNCHANGED <<pvars, svars, evars, nvars, tvars, aspiration, timeman, nncall, picking>>

\* the move loop ends (a cutoff, stop_, no move left) and the node returns
NullLeave ==
    /\ nullrun.frames # <<>> /\ NullTop.label = "loop"
    /\ nullrun' = [nullrun EXCEPT !.frames = NullPop]
    /\ UNCHANGED <<pvars, svars, evars, nvars, tvars, aspiration, timeman, nncall, picking>>

NullNext ==
    \/ \E depth \in 1..MaxNullRootDepth : NullSearch(depth)
    \/ \E conditions \in BOOLEAN : NullEnter(conditions)
    \/ \E outcome \in {"return", "verify", "loop"} : NullReturned(outcome)
    \/ \E cutoff \in BOOLEAN : NullVerified(cutoff)
    \/ NullMakeMove
    \/ \E research \in BOOLEAN : NullChildReturned(research)
    \/ NullLeave

NullSpec == Init /\ [][NullNext]_vars

(***************************************************************************)
(* The result cache: one thread calls static_eval on the synchronous       *)
(* backend, on a position the cache holds or on a new one, while the       *)
(* weights are loaded once and the cache limit is changed.                 *)
(***************************************************************************)
\* the key of a position the cache holds, and the key of one it has not seen
\* as long as every key came from here
CachedKey(e) == IF e.eval_cache_ = {} THEN 1 ELSE CHOOSE k \in e.eval_cache_ : TRUE

NewKey(e) == Cardinality(e.eval_cache_) + 1

StaticEvalKey ==
    \E key \in {CachedKey(lc0), NewKey(lc0)} :
        /\ key <= MaxCacheKeys
        /\ StaticEvalBegin(1, key)

CacheNext ==
    \/ ~lc0.ready_ /\ LoadWeights(TRUE)
    \/ \E entries \in {0, MaxCacheKeys} : SetCacheLimit(entries)
    \/ ControlStep
    \/ StaticEvalKey
    \/ EvaluateSync(1)

CacheSpec == Init /\ [][CacheNext]_vars



(***************************************************************************)
(* Reference definitions the properties are stated with                    *)
(***************************************************************************)
\* the calls made so far on pos were make_move calls that returned true and
\* unmake_move calls
OnlySuccessfulCalls ==
    \A i \in 1..Len(log) :
        \/ log[i].op = "unmake_move"
        \/ log[i].op = "make_move" /\ log[i].ok

\* every observable field of a Position (all but the state-info stack)
Observable(p) == [p EXCEPT !.history = <<>>]

\* the pseudo-legal moves of p that make_move accepts on a copy of p
LegalMoves(p) == { m \in SeqToSet(generate_pseudo_legal(p)) : make_move(p, m).ok }

\* the position with the move played on it, before make_move's own verdict
Played(p, m) ==
    MakeFinish(MakeBoard(MakePush(p, m), m, p.board[move_from(m)], CapturedPiece(p, m),
                         p.side_to_move),
               m, p.board[move_from(m)], CapturedPiece(p, m), p.side_to_move)

\* the mover's king is attacked once m has been played
KingAttackedAfter(p, m) == in_check(Played(p, m), p.side_to_move)

\* the pieces of the squares lo..hi of a board array, added to p one by one
RECURSIVE AddRange(_, _, _, _)
AddRange(p, board, lo, hi) ==
    IF lo = hi
    THEN IF board[lo] # NO_PIECE THEN add_piece(p, board[lo], lo) ELSE p
    ELSE LET half == AddRange(p, board, lo, (lo + hi) \div 2)
         IN  IF half.phase >= 0 THEN AddRange(half, board, (lo + hi) \div 2 + 1, hi) ELSE half

\* keys and sums recomputed from the board array alone
FromScratch(board) == AddRange(clear, board, SQ_A1, SQ_H8)

\* the number of sequences of depth legal moves from p, every move tried on
\* a copy of the position it is played from
RECURSIVE LegalPerft(_, _)
RECURSIVE LegalPerftRange(_, _, _, _, _)
LegalPerftRange(p, moves, lo, hi, depth) ==
    IF lo > hi THEN 0
    ELSE IF lo = hi
    THEN LET mr == make_move(p, moves[lo])
         IN  IF mr.ok THEN LegalPerft(mr.pos, depth - 1) ELSE 0
    ELSE LegalPerftRange(p, moves, lo, (lo + hi) \div 2, depth)
         + LegalPerftRange(p, moves, (lo + hi) \div 2 + 1, hi, depth)

LegalPerft(p, depth) ==
    IF depth <= 0 THEN 1
    ELSE LET moves == generate_pseudo_legal(p)
         IN  LegalPerftRange(p, moves, 1, Len(moves), depth)

(***************************************************************************)
(* Properties of Position, move generation and perft                       *)
(***************************************************************************)
\* C1: in every position reached from a loaded FEN by successful make_move /
\* unmake_move calls, make_move(m) followed by unmake_move() leaves every
\* observable field as it was, for every legal move m.
C1_MakeUnmakeRoundTrip ==
    (loaded /\ OnlySuccessfulCalls) =>
        \A m \in LegalMoves(pos) :
            Observable(unmake_move(make_move(pos, m).pos)) = Observable(pos)

\* C2: whenever make_move returns false, for any Move value, the position is
\* unchanged: every observable field and the depth of the state-info stack.
C2_FailedMakeMoveLeavesPosition ==
    (loaded /\ OnlySuccessfulCalls) =>
        \A m \in CandidateMoves(pos) :
            \A r \in {make_move(pos, m)} : ~r.ok => r.pos = pos

\* C3: for every pseudo-legal move, make_move returns false iff the mover's
\* king is attacked after the move; when it returns true the move is applied,
\* a StateInfo pushed and the side flipped; generate_legal returns exactly the
\* pseudo-legal moves that do not leave the own king in check.
C3_MakeMoveRejectsExactlyChecks ==
    (loaded /\ OnlySuccessfulCalls) =>
        /\ \A m \in SeqToSet(generate_pseudo_legal(pos)) :
             \A r \in {make_move(pos, m)} :
                /\ ~r.ok <=> KingAttackedAfter(pos, m)
                /\ r.ok => /\ r.pos = Played(pos, m)
                           /\ Len(r.pos.history) = Len(pos.history) + 1
                           /\ r.pos.side_to_move = Flip(pos.side_to_move)
        /\ SeqToSet(generate_legal(pos).moves)
             = { m \in SeqToSet(generate_pseudo_legal(pos)) : ~KingAttackedAfter(pos, m) }

\* C4: after set_from_fen and any sequence of successful make_move /
\* unmake_move calls, key, pawn_key, the PSQT sums, non_pawn_material and
\* phase equal their recomputation from the pieces on the board.
C4_IncrementalEqualsScratch ==
    (loaded /\ OnlySuccessfulCalls) =>
        \A s \in {FromScratch(pos.board)} :
            /\ pos.key = compute_full_key(pos)
            /\ pos.pawn_key = s.pawn_key
            /\ pos.mg_psqt = s.mg_psqt
            /\ pos.eg_psqt = s.eg_psqt
            /\ pos.non_pawn_material = s.non_pawn_material
            /\ pos.phase = s.phase

\* C5: in every such position the 12 piece bitboards are pairwise disjoint,
\* their union is the occupancy, each colour's occupancy is the union of its
\* six bitboards, and piece_on agrees with the bitboards on every square.
C5_BitboardsConsistent ==
    (loaded /\ OnlySuccessfulCalls) =>
        /\ \A c1, c2 \in Colors : \A t1, t2 \in PieceTypes :
             (c1 # c2 \/ t1 # t2) => pos.piece_bb[c1][t1] \cap pos.piece_bb[c2][t2] = {}
        /\ \A c \in Colors :
             pos.occupancy[c] = UNION { pos.piece_bb[c][pt] : pt \in PieceTypes }
        /\ pos.occupancy[COLOR_NB] = pos.occupancy[WHITE] \cup pos.occupancy[BLACK]
        /\ \A sq \in Squares :
             /\ pos.board[sq] = NO_PIECE => sq \notin pos.occupancy[COLOR_NB]
             /\ pos.board[sq] # NO_PIECE =>
                  sq \in pos.piece_bb[color_of(pos.board[sq])][type_of(pos.board[sq])]

\* C6: perft(pos, d) is the number of sequences of d legal moves from pos,
\* and on the reference positions it is the published count.
C6_PerftIsLegalPerft ==
    (loaded /\ Len(log) = 1 /\ log[1].op = "perft") =>
        /\ log[1].nodes = LegalPerft(set_from_fen(fen).pos, log[1].move)
        /\ \A i \in 1..Len(PerftCases) :
             PerftCases[i].fen = fen => log[1].nodes = PerftCases[i].counts[log[1].move]

\* search has returned: run.result is what it returned for the position
\* run.root and the limits last begun
SearchReturned == run.pc = "idle" /\ searches # <<>>

\* C7: whenever the root position has a legal move, search returns a
\* best_move that is not none and is a legal move of the root position,
\* whatever the limits, also when the hard stop fires before the first
\* iteration completes and when the root position is a draw by rule.
C7_BestMoveIsLegal ==
    (SearchReturned /\ LegalMoves(run.root) # {}) =>
        /\ ~is_none(run.result.best_move)
        /\ run.result.best_move \in LegalMoves(run.root)

\* C8: when the root position has no legal move, search returns best_move
\* none, with score -VALUE_MATE + 0 if the side to move is in check and
\* score 0 if it is not.
C8_NoLegalMoveScore ==
    (SearchReturned /\ LegalMoves(run.root) = {}) =>
        /\ is_none(run.result.best_move)
        /\ run.result.score = IF in_check(run.root, run.root.side_to_move) THEN -VALUE_MATE ELSE 0

\* C9: within one call to search the stop flag is monotonic: once
\* should_stop_hard has returned true, stop_ stays true until search
\* returns, and every search_node or qsearch invocation entered after that
\* returns at once, with score 0, having made no move and called no child.
C9_StopFlagMonotonic ==
    [][ (searcher.stop_ /\ run.pc # "idle") =>
            /\ searcher'.stop_
            /\ (frames # <<>> /\ Top.label = "enter") =>
                   /\ frames' = Callers
                   /\ ret'.score = 0
                   /\ pos' = pos ]_vars

\* the hard stop fired on the clock, the TimeManager would by itself not
\* stop at the next node, and a search_node invocation is entered
C9_EnteredAfterStop ==
    /\ searcher.stop_
    /\ searcher.limits.nodes = 0
    /\ searcher.nodes + 1 < searcher.tm.next_check_node
    /\ frames # <<>>
    /\ Top.label = "enter"

\* C10: HCEEvaluator::static_eval gives the same for the same position
\* whatever was evaluated before: the pawn-structure, shelter and storm terms
\* a call takes from the pawn hash are the terms computed afresh for the
\* position it is called on, as an evaluator with an empty pawn hash gives them
C10_PawnHashHitIsFresh ==
    [][ evaluator'.stats.eval_calls # evaluator.stats.eval_calls =>
            breakdown' = evaluate(NewEvaluator, pos).breakdown ]_vars


(***************************************************************************)
(* Properties of set_from_fen                                              *)
(***************************************************************************)
\* the squares of p on which a king of colour c stands
KingsOf(p, c) == { sq \in Squares : p.board[sq] = make_piece(c, KING) }

\* C11: whenever set_from_fen returns true, the position has exactly one
\* king of each colour and king_square(c) is the square that king stands on.
C11_ExactlyOneKing ==
    (loaded /\ log = <<>>) =>
        \A c \in Colors :
            /\ Cardinality(KingsOf(pos, c)) = 1
            /\ KingsOf(pos, c) = {pos.king_square[c]}

\* the letters of the twelve pieces
PieceLetters == {"P", "N", "B", "R", "Q", "K", "p", "n", "b", "r", "q", "k"}

\* the number of squares a character of a rank describes
CharWidth(c) == IF isdigit(c) THEN IndexOf(Digits, c) - 1 ELSE 1

RECURSIVE WidthSum(_, _, _)
WidthSum(board_part, lo, hi) ==
    IF lo > hi THEN 0 ELSE CharWidth(board_part[lo]) + WidthSum(board_part, lo + 1, hi)

\* the board field describes exactly 8 ranks of exactly 8 squares each, with
\* known piece letters only
BoardWellFormed(board_part) ==
    LET Slashes == { i \in 1..Len(board_part) : board_part[i] = "/" }
        Starts  == {1} \cup { i + 1 : i \in Slashes }
        End(s)  == IF \E j \in Slashes : j >= s
                   THEN (CHOOSE j \in Slashes : j >= s /\ \A k \in Slashes : k >= s => j <= k) - 1
                   ELSE Len(board_part)
    IN  /\ Cardinality(Starts) = 8
        /\ \A s \in Starts : WidthSum(board_part, s, End(s)) = 8
        /\ \A i \in 1..Len(board_part) :
               board_part[i] = "/" \/ isdigit(board_part[i]) \/ board_part[i] \in PieceLetters

\* every field of the FEN is well formed and both kings are on the board
FenWellFormed(f) ==
    /\ Len(f) >= 4
    /\ BoardWellFormed(f[1])
    /\ \E i \in 1..Len(f[1]) : f[1][i] = "K"
    /\ \E i \in 1..Len(f[1]) : f[1][i] = "k"
    /\ f[2] \in { <<"w">>, <<"b">> }
    /\ f[3] = <<"-">> \/ \A i \in 1..Len(f[3]) : f[3][i] \in {"K", "Q", "k", "q"}
    /\ \/ f[4] = <<"-">>
       \/ /\ Len(f[4]) = 2
          /\ f[4][1] \in SeqToSet(FileChars)
          /\ f[4][2] \in SeqToSet(RankChars)

\* C12: set_from_fen returns false for every FEN string with a malformed
\* field: a board field that is not 8 ranks of 8 squares, an unknown piece
\* letter, a side other than w or b, a castling character outside KQkq, an ep
\* field that is neither - nor a square, or a missing king.
C12_MalformedFenRejected ==
    (fen # <<>> /\ ~FenWellFormed(fen)) => ~loaded

(***************************************************************************)
(* Properties of the null move                                             *)
(***************************************************************************)
\* C13: make_null_move flips the side to move, and make_null_move followed
\* by unmake_null_move restores the Zobrist key, the pawn key, the side to
\* move, the ep square, the halfmove clock and the fullmove number.
C13_NullMoveRoundTrip ==
    loaded =>
        \A n \in {make_null_move(pos)} :
            /\ n.side_to_move = Flip(pos.side_to_move)
            /\ \A q \in {unmake_null_move(n)} :
                   /\ q.key = pos.key
                   /\ q.pawn_key = pos.pawn_key
                   /\ q.side_to_move = pos.side_to_move
                   /\ q.ep_square = pos.ep_square
                   /\ q.halfmove_clock = pos.halfmove_clock
                   /\ q.fullmove_number = pos.fullmove_number

\* the pair has been called on a position with an ep square, which is back
C13_NullPairPlayed ==
    /\ loaded
    /\ Len(log) = 2
    /\ log[1].op = "make_null_move"
    /\ log[2].op = "unmake_null_move"
    /\ pos.ep_square # SQ_NONE

(***************************************************************************)
(* Properties of the Lc0Evaluator                                          *)
(***************************************************************************)
\* C14: when the worker pool is stopped, every request pending at that
\* moment, in the queue or in a batch a worker has taken and not evaluated,
\* is completed with the "worker stopped" failure: while stop_workers_ is
\* set a pending request is completed in no other way, and none is pending
\* any more when stop_workers resets the flag.
C14_StopFailsPending ==
    [][ lc0.stop_workers_ =>
          /\ \A r \in Requests :
                 (requests[r].promise = "pending" /\ requests'[r].promise # "pending")
                     => requests'[r].promise = "stopped"
          /\ ~lc0'.stop_workers_ => \A r \in Requests : requests'[r].promise # "pending" ]_vars

\* C15: every request enqueued by evaluate_async is eventually completed,
\* with a value or with a failure, also when stop_workers or restart_workers
\* runs while it is enqueued.
C15_RequestCompleted ==
    \A r \in Requests :
        (requests[r].promise = "pending") ~> (requests[r].promise # "pending")

\* C16: the result cache never holds more entries than the cache limit
\* configured at that moment
C16_CacheBounded == Cardinality(lc0.eval_cache_) <= lc0.cache_limit_

\* C17: a score s with |s| <= VALUE_MATE stored at a ply below MAX_PLY is
\* read back at that ply as s, the stored value is score_to_tt(s, ply) and
\* fits 16 bits, and a score that is not a mate score is stored unchanged
C17_TtScoreRoundTrip ==
    tt_call.made =>
        \A e \in tt_probe(tt_call.tt, TtKey) :
            /\ score_from_tt(e.score, tt_call.ply) = tt_call.score
            /\ e.score = score_to_tt(tt_call.score, tt_call.ply)
            /\ e.score \in -32768 .. 32767
            /\ (tt_call.score <= MATE_SCORE_FOR_TT /\ tt_call.score >= -MATE_SCORE_FOR_TT)
                  => e.score = tt_call.score

\* a mated-in score stored at the deepest ply and found by the probe
C17_MateScoreStored ==
    /\ tt_call.made
    /\ tt_call.score < -MATE_SCORE_FOR_TT
    /\ tt_call.ply = MAX_PLY - 1
    /\ tt_probe(tt_call.tt, TtKey) # {}

\* the conditions of castling, from the squares of the move alone
CastlingRight(c, kingside) ==
    IF c = WHITE THEN (IF kingside THEN WHITE_OO ELSE WHITE_OOO)
    ELSE (IF kingside THEN BLACK_OO ELSE BLACK_OOO)

RankSquares(r, f1, f2) == { make_square(f, r) : f \in Min(f1, f2) .. Max(f1, f2) }

CastlingConditions(p, m) ==
    LET us       == p.side_to_move
        from     == move_from(m)
        to       == move_to(m)
        r        == rank_of(from)
        kingside == file_of(to) > file_of(from)
        rook     == make_square(IF kingside THEN 7 ELSE 0, r)
    IN  /\ from = (IF us = WHITE THEN SQ_E1 ELSE SQ_E8)
        /\ p.board[from] = make_piece(us, KING)
        /\ to = make_square(IF kingside THEN 6 ELSE 2, r)
        /\ And4(p.castling_rights, CastlingRight(us, kingside)) # 0
        /\ \A sq \in RankSquares(r, file_of(from), file_of(rook)) \ {from, rook} :
               p.board[sq] = NO_PIECE
        /\ \A sq \in RankSquares(r, file_of(from), file_of(to)) :
               ~is_square_attacked(p, sq, Flip(us))

C20_NoLegalMoveResultIsReal ==
    (/\ run.pc = "node" /\ frames # <<>>
     /\ Top.fn = "search_node" /\ Top.label = "loop"
     /\ Top.moves = <<>> /\ Top.legal_moves = 0)
        => LegalMoves(pos) = {}

\* C19: when Searcher::search has returned, every make_move of the search
\* has been matched by an unmake_move: pos is as deep in its history as the
\* root position was, also after a hard stop inside the singular-extension,
\* ProbCut or null-move sub-searches.
C19_SearchRestoresPosition ==
    (run.pc = "idle" /\ searches # <<>>) => Len(pos.history) = Len(run.root.history)

\* the most the side to move can win on the square by taking with its
\* cheapest attacker, or by not taking, the other side answering likewise
RECURSIVE ExchangeBest(_, _, _, _, _, _)
ExchangeBest(p, to, occ, occ_side, last, side) ==
    LET at    == attackers_to(p, to, occ) \cap occ_side[side]
        cands == { pt \in PieceTypes : at \cap p.piece_bb[side][pt] # {} }
        pt    == CHOOSE c \in cands : \A o \in cands : c <= o
        from_sq == pop_lsb(at \cap p.piece_bb[side][pt])
    IN  IF cands = {} THEN 0
        ELSE Max(0, piece_value(last)
                      - ExchangeBest(p, to, occ \ {from_sq},
                                     [occ_side EXCEPT ![side] = @ \ {from_sq}], pt, Flip(side)))

\* the minimax value of the capture sequence the move starts
SeeMinimax(p, move) ==
    see_captured_value(p, move)
        - ExchangeBest(p, move_to(move), see_start(p, move).occ, see_start(p, move).occ_side,
                       type_of(p.board[move_from(move)]), Flip(p.side_to_move))

\* C21: on a position reached by successful make_move / unmake_move calls,
\* static_exchange_eval of a capture returns the minimax value of the capture
\* sequence on the destination square, each side taking with its cheapest
\* attacker or stopping; a piece defended once and attacked once yields
\* value(captured) - value(capturing piece).
C21_SeeIsMinimax ==
    (/\ loaded /\ log # <<>>
     /\ log[Len(log)].op = "static_exchange_eval"
     /\ \A i \in 1..Len(log) - 1 : log[i].op = "unmake_move" \/ (log[i].op = "make_move" /\ log[i].ok))
        => log[Len(log)].nodes = SeeMinimax(pos, log[Len(log)].move)

\* C22: when the singular test of a node is under way, the alternatives it
\* searches are moves of that node's own position, the position before the
\* TT move was made, the TT move excluded, and the extensions granted along
\* the line do not exceed max_extensions_per_pv_line.
C22_SingularAlternativesOfSameNode ==
    (/\ run.pc = "node" /\ frames # <<>>
     /\ Top.fn = "search_node" /\ Top.label = "singular")
        => /\ SeqToSet(Top.alts) \subseteq
                  SeqToSet(generate_pseudo_legal(unmake_move(pos))) \ {Top.tt_move}
           /\ searcher.extensions_used[Top.ply] <= searcher.config.max_extensions_per_pv_line

\* C23: a node that attempts null-move pruning has no null move on the path
\* from the root to it, and its reduction R satisfies 1 <= R <= depth - 1,
\* so that the depth of the null search, depth - 1 - R, is not negative.
C23_NoNullMoveInNullSubtree ==
    \A i \in 1..Len(nullrun.frames) :
        nullrun.frames[i].label = "null_wait"
            => /\ \A j \in 1..i - 1 : nullrun.frames[j].label # "null_wait"
               /\ 1 <= nullrun.frames[i].r
               /\ nullrun.frames[i].r <= nullrun.frames[i].depth - 1
               /\ nullrun.frames[i].depth - 1 - nullrun.frames[i].r >= 0

\* 24 doubled once for each fail, up to 1024
AspirationMargin(fails) == IF fails >= 6 THEN 1024 ELSE 24 * (2 ^ fails)

\* C24: in an iteration with depth >= 4 the first root search has the window
\* [prev - 24, prev + 24], every root search has alpha < beta and the margin
\* 24 doubled per fail up to 1024, the score an iteration ends with is
\* strictly inside the last window, and every root search is followed, after
\* finitely many re-searches, by the end of the iteration.
C24_AspirationConverges ==
    /\ [](aspiration.pc = "node" =>
             /\ aspiration.alpha < aspiration.beta
             /\ aspiration.delta = AspirationMargin(aspiration.aspiration_fails)
             /\ aspiration.aspiration_fails = 0 =>
                    /\ aspiration.alpha = aspiration.prev_score - 24
                    /\ aspiration.beta = aspiration.prev_score + 24)
    /\ []((aspiration.pc = "iter" /\ aspiration.depth > 4)
             => (aspiration.alpha < aspiration.prev_score /\ aspiration.prev_score < aspiration.beta))
    /\ (aspiration.pc = "node" ~> aspiration.pc = "iter")

\* the seventh re-search of an iteration is about to run, the margin at 1024
C24_MarginAtMaximum ==
    /\ aspiration.pc = "node"
    /\ aspiration.aspiration_fails = 7
    /\ aspiration.delta = 1024


\* the go command of the call gives the side to move a clock and neither
\* infinite, ponder nor a move time
ClockMode ==
    /\ ~(timeman.limits.infinite \/ timeman.limits.ponder)
    /\ timeman.limits.movetime_ms <= 0
    /\ timeman.tm.time_left_ms > 0

(***************************************************************************)
(* C25: in clock mode the maximum budget TimeManager::init computes before *)
(* the emergency clamp is min(available, max(optimum * k, base * 6)) with  *)
(* k = 3 when movestogo > 0 and k = 4 otherwise, base = available /        *)
(* horizon and optimum = base + increment / 2.                             *)
(***************************************************************************)
C25_MaximumBudgetFormula ==
    (timeman.op = "init" /\ ClockMode)
        => LET available == timeman.tm.available_ms
               base      == available \div clock_horizon(timeman.tm.time_left_ms, timeman.tm.moves_to_go)
               optimum   == base + quot(timeman.tm.increment_ms, 2)
               k         == IF timeman.tm.moves_to_go > 0 THEN 3 ELSE 4
           IN  timeman.planned = Min(available, Max(optimum * k, base * 6))


\* the call is should_stop_soft with finite budgets
FiniteSoftCall == timeman.op = "should_stop_soft" /\ timeman.before.maximum_time_ms < TIME_INF

\* the soft node budget has been reached at the call
SoftNodeBudgetReached ==
    timeman.before.soft_node_budget > 0 /\ timeman.it.total_nodes >= timeman.before.soft_node_budget

(***************************************************************************)
(* C26 as stated: with finite budgets should_stop_soft returns true        *)
(* exactly when (elapsed >= effective-optimum and stability >= 3) or (the  *)
(* soft node budget has been reached and stability >= 0), the effective    *)
(* optimum being clamp(optimum * complexity / 100, optimum / 2, maximum)   *)
(* and the complexity within [55, 260].                                    *)
(***************************************************************************)
C26_SoftStopAsStated ==
    FiniteSoftCall
        => LET optimum    == timeman.before.optimum_time_ms
               complexity == soft_complexity(timeman.it)
               stability  == soft_stability(timeman.it)
               effective  == Clamp(quot(mul32(optimum, complexity), 100), optimum \div 2,
                                   timeman.before.maximum_time_ms)
           IN  /\ complexity \in 55..260
               /\ timeman.stop <=> \/ timeman.now >= effective /\ stability >= 3
                                   \/ SoftNodeBudgetReached /\ stability >= 0

(***************************************************************************)
(* C26 amended: with finite budgets should_stop_soft returns true when     *)
(* elapsed >= maximum, whatever the stability, and leaves the time manager *)
(* as it was; otherwise it stores the complexity, within [55, 260], the    *)
(* stability and the effective optimum clamp(optimum * complexity / 100,   *)
(* max(1, optimum / 2), maximum), and returns true exactly when (elapsed   *)
(* >= effective-optimum and stability >= 3) or (the soft node budget has   *)
(* been reached and stability >= 0).                                       *)
(***************************************************************************)
C26_SoftStopCondition ==
    FiniteSoftCall
        => IF timeman.now >= timeman.before.maximum_time_ms
           THEN timeman.stop /\ timeman.tm = timeman.before
           ELSE LET optimum    == timeman.before.optimum_time_ms
                    complexity == timeman.tm.last_complexity_x100
                    stability  == timeman.tm.last_stability_score
                    effective  == Clamp(quot(mul32(optimum, complexity), 100), Max(1, optimum \div 2),
                                        timeman.before.maximum_time_ms)
                IN  /\ complexity \in 55..260
                    /\ complexity = soft_complexity(timeman.it)
                    /\ stability = soft_stability(timeman.it)
                    /\ timeman.tm.effective_optimum_ms = effective
                    /\ timeman.stop <=> \/ timeman.now >= effective /\ stability >= 3
                                        \/ SoftNodeBudgetReached /\ stability >= 0

\* the search is stopped by the soft node budget with a stability below 3
C26_StoppedByNodeBudget ==
    /\ FiniteSoftCall
    /\ timeman.now < timeman.before.maximum_time_ms
    /\ timeman.now < timeman.tm.effective_optimum_ms
    /\ timeman.tm.last_stability_score \in 0..2
    /\ timeman.stop


(***************************************************************************)
(* C28: after TimeManager::init with any limits 1 <= optimum <= maximum <= *)
(* available; after every should_stop_soft call max(1, optimum / 2) <=     *)
(* effective-optimum <= maximum; with infinite or ponder set all budgets   *)
(* are infinite and neither the hard nor the soft time check stops the     *)
(* search.                                                                 *)
(***************************************************************************)
C28_BudgetsOrdered ==
    timeman.op # "none"
        => /\ 1 <= timeman.tm.optimum_time_ms
           /\ timeman.tm.optimum_time_ms <= timeman.tm.maximum_time_ms
           /\ timeman.tm.maximum_time_ms <= timeman.tm.available_ms
           /\ timeman.op = "should_stop_soft"
                  => /\ Max(1, timeman.tm.optimum_time_ms \div 2) <= timeman.tm.effective_optimum_ms
                     /\ timeman.tm.effective_optimum_ms <= timeman.tm.maximum_time_ms
           /\ (timeman.limits.infinite \/ timeman.limits.ponder)
                  => /\ timeman.tm.available_ms = TIME_INF
                     /\ timeman.tm.optimum_time_ms = TIME_INF
                     /\ timeman.tm.effective_optimum_ms = TIME_INF
                     /\ timeman.tm.maximum_time_ms = TIME_INF
                     /\ ~timeman.stop


(***************************************************************************)
(* C27: a cache hit of the NN evaluator returns what a fresh forward pass  *)
(* on the queried position returns: positions with the same Zobrist key    *)
(* have the same input planes, history planes, repetition flags and        *)
(* halfmove-clock plane included.                                          *)
(***************************************************************************)
C27_CacheHitIsFresh ==
    (nncall.op = "static_eval" /\ nncall.hit)
        => nncall.entry = run_forward_entry(extract_features_112(nncall.pos))


\* the moves next() has returned, without the null move that ends them
ReturnedMoves ==
    [i \in 1..(IF picking.op = "end" THEN Len(picking.returned) - 1 ELSE Len(picking.returned)) |->
        picking.returned[i].move]

\* the moves the picker is to hand out: the pseudo-legal moves of the
\* position, in quiescence-only mode its captures and promotions
PickerMoves ==
    { m \in SeqToSet(generate_pseudo_legal(picking.pos)) :
        picking.picker.qsearch_only => (is_capture(m) \/ is_promotion(m)) }

(***************************************************************************)
(* C29: the moves returned by next() until it returns none are a           *)
(* permutation of the pseudo-legal moves of the position (its captures and *)
(* promotions in quiescence-only mode): each is returned exactly once, the *)
(* TT move not a second time, and a TT suggestion only if it is one of     *)
(* those moves.                                                            *)
(***************************************************************************)
C29_PickerPermutation ==
    picking.op = "end"
        => /\ SeqToSet(ReturnedMoves) = PickerMoves
           /\ \A i, j \in 1..Len(ReturnedMoves) : ReturnedMoves[i] = ReturnedMoves[j] => i = j


\* the place of a phase in the order of the stages
PhaseRank(phase) ==
    CASE phase = "TT" -> 0
      [] phase = "GOOD_CAPTURE" -> 1
      [] phase = "QUIET" -> 2
      [] phase = "BAD_CAPTURE" -> 3
      [] OTHER -> 4

\* the score the picker gives a move of its position
PickerScore(m) ==
    IF is_capture(m) \/ is_promotion(m) THEN capture_score(picking.pos, m, picking.ctx)
    ELSE quiet_score(picking.pos, m, picking.ctx)

\* what C30 says of every stage in either reading: the stages come in
\* order, the TT move first, the quiet stage holds the moves that neither
\* capture nor promote, and within a stage the scores do not increase,
\* equal scores coming by increasing move bits
StagesInOrder ==
    /\ \A i \in 1..Len(picking.returned) - 1 :
           PhaseRank(picking.returned[i].phase) <= PhaseRank(picking.returned[i + 1].phase)
    /\ \A i \in 1..Len(picking.returned) :
           LET r == picking.returned[i]
           IN  /\ r.phase = "TT" <=> (i = 1 /\ ~is_none(picking.picker.tt_move))
               /\ r.phase = "TT" => r.move = picking.picker.tt_move
               /\ r.phase = "END" <=> is_none(r.move)
               /\ r.phase = "QUIET" => ~is_capture(r.move) /\ ~is_promotion(r.move)
               /\ r.phase \in {"GOOD_CAPTURE", "BAD_CAPTURE"} => is_capture(r.move) \/ is_promotion(r.move)
    /\ \A i \in 1..Len(picking.returned) - 1 :
           LET a == picking.returned[i]
               b == picking.returned[i + 1]
           IN  (a.phase = b.phase /\ a.phase \in {"GOOD_CAPTURE", "QUIET", "BAD_CAPTURE"})
                   => \/ PickerScore(a.move) > PickerScore(b.move)
                      \/ PickerScore(a.move) = PickerScore(b.move) /\ a.move < b.move

(***************************************************************************)
(* C30 as stated: next() returns the TT move first, then every capture or  *)
(* promotion whose capture score is >= 0, then the quiet moves, then the   *)
(* remaining captures and promotions, all of score < 0; within a stage in  *)
(* non-increasing score order, ties by the smaller move bits; the phase    *)
(* names the stage.                                                        *)
(***************************************************************************)
C30_StageOrderAsStated ==
    /\ StagesInOrder
    /\ \A i \in 1..Len(picking.returned) :
           LET r == picking.returned[i]
           IN  /\ r.phase = "GOOD_CAPTURE" => PickerScore(r.move) >= 0
               /\ r.phase = "BAD_CAPTURE" => PickerScore(r.move) < 0

(***************************************************************************)
(* C30 amended: next() returns the TT move first, then every capture whose *)
(* capture score is >= 0 and every promotion whatever its score, then the  *)
(* quiet moves, then the remaining captures, none of them a promotion and  *)
(* all of score < 0; within a stage in non-increasing score order, ties by *)
(* the smaller move bits; the phase names the stage.                       *)
(***************************************************************************)
C30_StageOrder ==
    /\ StagesInOrder
    /\ \A i \in 1..Len(picking.returned) :
           LET r == picking.returned[i]
           IN  /\ r.phase = "GOOD_CAPTURE" => PickerScore(r.move) >= 0 \/ is_promotion(r.move)
               /\ r.phase = "BAD_CAPTURE" => PickerScore(r.move) < 0 /\ ~is_promotion(r.move)

\* a picker has handed out a promotion of negative score in the good
\* stage, quiet moves and a capture in the bad stage, and has ended
C30_AllStagesPicked ==
    /\ picking.op = "end"
    /\ \E i \in 1..Len(picking.returned) :
           /\ picking.returned[i].phase = "GOOD_CAPTURE"
           /\ is_promotion(picking.returned[i].move)
           /\ PickerScore(picking.returned[i].move) < 0
    /\ \E i \in 1..Len(picking.returned) : picking.returned[i].phase = "QUIET"

====
